---- MODULE Spec2Model ----
(***************************************************************************)
(* A model of c-axon: the transport (src/src/sock.c) and the pattern       *)
(* engine (src/src/axon.c).                                                *)
(*                                                                         *)
(*   SpecPush, SpecPub, SpecRep  the transport of one endpoint: the        *)
(*       connection set, the round-robin cursor, the listener, the dialer, *)
(*       messengers and senders.                                           *)
(*   SpecReq  axon_vsend on a REQ endpoint, the REP endpoint that answers  *)
(*       and the REQ endpoint's receive path.                              *)
(*   SpecSub  the subscription table of a SUB or PULL endpoint and the     *)
(*       dispatch of received messages.                                    *)
(***************************************************************************)
EXTENDS Integers, Sequences, FiniteSets, TLC

(***************************************************************************)
(* Bounds of the model.                                                    *)
(***************************************************************************)
\* size of an fd_set (1024 in glibc), scaled down
FD_SETSIZE == 5
\* sender workers started in one behaviour
MaxSenders == 2
\* connections (accepted or dialled) established in one behaviour
MaxPeers == 2
\* messenger workers started in one behaviour
MaxMessengers == 2
\* writes that fail on a connected socket in one behaviour
MaxFails == 1
\* user threads that call axon_send on the REQ endpoint, one send each
MaxReq == 2
\* connect attempts of the dialer that fail in one behaviour
MaxConnFails == 1
\* entries of the subscription table
MaxSubs == 2
\* worker threads started before the endpoint is released
MaxWorkers == 3
\* listeners whose setup fails in one behaviour
MaxBindFails == 2
\* the frames one read buffer holds at most
MaxFrames == 3

(***************************************************************************)
(* Program constants.                                                      *)
(***************************************************************************)
SOCK_SEND_BROADCAST == -1
SOCK_SEND_ROUND_ROBIN == -2
\* initial retry delay (ms) of the dialer and of the round-robin wait
RETRY_INIT == 100
\* cap of the retry delay (ms)
RETRY_MAX == 5000
\* cap-hits after which a round-robin sender gives up
LOOP_MAX == 3

FDs == 0 .. (FD_SETSIZE - 1)
NoFd == -1

VARIABLES
    type,           \* axon->type, fixed at axon_create
    fdkind,         \* the process's descriptor table: what each fd refers to
    l_pc,           \* listener worker: "none", "setup", "loop"
    l_socket,       \* worker->type.listenner.socket
    l_fds,          \* worker->type.listenner.fds
    r_pc,           \* dialer worker: "none", "connect", "connected"
    r_socket,       \* worker->type.reader.socket
    r_fds,          \* worker->type.reader.fds
    r_retry,        \* retry of sock_thread_reader
    clients_fds,    \* sock->clients.fds
    clients_index,  \* sock->clients.index
    clients_sem,    \* sock->clients.sem: 0 when free, else the sender holding it
    senders,        \* the sender workers, by start order
    messengers,     \* the messenger workers, by start order
    wire,           \* per connection (peer), the buffers written to it, in order
    \* history variables (not program state)
    fdpeer,         \* per descriptor, the connection (peer) it refers to, 0 if none
    npeer,          \* connections established so far
    nfail,          \* writes that failed on a connected socket so far
    nconnfail,      \* connect attempts that failed so far
    churn,          \* the connection set changed after the first send was issued
    unicast_log,    \* per unicast write attempt: the descriptor the request came from and the target
    bcast_log,      \* per broadcast sender: the set at its start, the sockets written, the sockets failed
    overlap         \* a send was issued while an earlier sender had not finished

sockvars == <<type, fdkind, l_pc, l_socket, l_fds, r_pc, r_socket, r_fds, r_retry,
              clients_fds, clients_index, clients_sem, senders, messengers, wire,
              fdpeer, npeer, nfail, nconnfail, churn, unicast_log, bcast_log, overlap>>

VARIABLES
    msg_id,         \* axon->msg_id of the REQ endpoint
    requesters,     \* the user threads inside axon_vsend on the REQ endpoint
    queues,         \* the POSIX message queues created so far
    net_req,        \* request frames written by the REQ endpoint, not yet read by the REP endpoint
    net_rep,        \* reply frames written by the REP endpoint, not yet read by the REQ endpoint
    rx,             \* the messengers of the REQ endpoint inside axon_message_cb
    \* history variables
    replied         \* per requester, the reply the REP callback returned for its request

reqvars == <<msg_id, requesters, queues, net_req, net_rep, rx, replied>>

VARIABLES
    subs,           \* axon->subs: the subscriptions, from subs.first along next
    cb_message,     \* axon->cb.message.fct
    \* history variables
    dispatched,     \* the last run of axon_message_cb on a SUB or PULL endpoint, if nothing
                    \* was registered since: the message, the invocations made, the message after
    last_call       \* the last call of axon_subscribe, axon_unsubscribe, axon_send or
                    \* axon_reply, if nothing else happened since: its arguments, the
                    \* subscriptions before it, and what it returned

subvars == <<subs, cb_message, dispatched, last_call>>

VARIABLES
    readers,        \* sock->readers: the dialer workers, hostname and port of each
    peer_up         \* the remote peer of the dialer accepts connections

\* The life of the worker threads and the release of the endpoint.
VARIABLES
    workers,        \* the worker threads started: list, position, cancel request, record
    rel,            \* the position of axon_release / sock_release
    sem,            \* the value of each semaphore of the endpoint
    mem,            \* the transport and the endpoint: live or freed
    uaf             \* the accesses made to memory already freed

relvars == <<workers, rel, sem, mem, uaf>>

\* A listener whose setup fails, and the error callback.
VARIABLES
    l2_pc,          \* a further listener worker: "none", "socket", "setup"
    l2_socket,      \* its worker->type.listenner.socket
    cb_error,       \* axon->cb.error.fct is set
    error_log,      \* the listener setups that failed: the call, the string reported
    cb_bind,        \* axon->cb.bind.fct is set
    bind_log        \* the invocations of the bind callback: the worker, its bind call

bindvars == <<l2_pc, l2_socket, cb_error, error_log, cb_bind, bind_log>>

\* The receive side of the endpoints.
VARIABLES
    net_dup         \* the replies a peer has sent a second time, on their way

rcvvars == <<net_dup>>

\* One call of axon_message_cb on a buffer that may hold several frames.
VARIABLES
    cb_pc,          \* "idle", "loop" (inside the while), "returned"
    cb_data,        \* the buffer as the worker read it: a sequence of frames
    cb_buffer,      \* buffer and size: the frames not decoded yet
    cb_log          \* the messages dispatched, in the order of their dispatch

cbvars == <<cb_pc, cb_data, cb_buffer, cb_log>>

\* The threads that use the subscriptions: messengers that dispatch a
\* message, and a user thread that subscribes and unsubscribes.
VARIABLES
    dsp,            \* each dispatching messenger: position, curr_sub, the table it first saw
    usr             \* the user thread inside axon_subscribe / axon_unsubscribe

dspvars == <<dsp, usr>>

\* One list of workers (sock_worker_list_t) and its workers, by their pointers.
VARIABLES
    chain,          \* list->first and list->last (0 is NULL)
    node            \* each worker: prev, next, the position of the thread that starts
                    \* it (st) and of its own thread (th)

lstvars == <<chain, node>>

othvars == <<cbvars, dspvars, lstvars>>

extvars == <<rcvvars, othvars>>

ctlvars == <<readers, peer_up, relvars, bindvars, extvars>>

vars == <<sockvars, reqvars, subvars, ctlvars>>

(***************************************************************************)
(* The operating system's descriptor table.                                *)
(***************************************************************************)
FreeFds == {f \in FDs : fdkind[f] = "closed"}

Min(S) == CHOOSE x \in S : \A y \in S : x <= y

\* socket() and accept() return the lowest descriptor not in use
NewFd == Min(FreeFds)

\* a close that would leave the descriptor open
Close_not(tab, fd) == tab

\* close(fd): the descriptor, whatever it refers to, is released
Close(tab, fd) == IF fd \in FDs THEN [tab EXCEPT ![fd] = "closed"] ELSE tab

\* send(fd, ...) can write the whole buffer only on a connected socket
Writable(fd) == fd \in FDs /\ fdkind[fd] = "conn"

(***************************************************************************)
(* AMP messages.  A decoded message (amp_msg_t) is its count and the       *)
(* fields reached from first by next; a frame on the wire is the sequence  *)
(* of the fields amp_encode wrote.  A field is [type, data].               *)
(***************************************************************************)
NoMsg == [count |-> -1, fields |-> <<>>]

\* amp_create followed by amp_push of each field, and amp_decode of a frame
Amp(fields) == [count |-> Len(fields), fields |-> fields]

Front(q) == SubSeq(q, 1, Len(q) - 1)
Last(q) == q[Len(q)]

\* id_field = amp->last; if (NULL != amp->last->prev) { amp->last =
\* amp->last->prev; amp->last->next = NULL; } amp->count--;
\* a message of one field keeps first pointing to the id field
strip_id(amp) ==
    IF Len(amp.fields) >= 2
    THEN [count |-> amp.count - 1, fields |-> Front(amp.fields)]
    ELSE [count |-> amp.count - 1, fields |-> amp.fields]

\* snprintf(str_id, 32, "%d:%u", getpid(), axon->msg_id)
str_id(seq) == <<"pid", seq>>

\* snprintf(str_mq, 64, "/%s", str_id)
str_mq(id) == <<"/">> \o id

\* the STRING field that carries an id
IdField(id) == [type |-> "STRING", data |-> id]

(***************************************************************************)
(* sock_create / axon_create: the state after construction.  Descriptor 0  *)
(* is the process's standard input; the others are free.                   *)
(***************************************************************************)
SockInit ==
    /\ fdkind = [f \in FDs |-> IF f = 0 THEN "file" ELSE "closed"]
    /\ fdpeer = [f \in FDs |-> 0]
    /\ l_pc = "none" /\ l_socket = NoFd /\ l_fds = {}
    /\ r_pc = "none" /\ r_socket = NoFd /\ r_fds = {} /\ r_retry = RETRY_INIT
    /\ clients_fds = {} /\ clients_index = 0 /\ clients_sem = 0
    /\ senders = <<>> /\ messengers = <<>>
    /\ wire = [p \in 1 .. MaxPeers |-> <<>>]
    /\ npeer = 0 /\ nfail = 0 /\ nconnfail = 0 /\ churn = FALSE
    /\ unicast_log = {} /\ bcast_log = <<>> /\ overlap = FALSE

\* retry = (int)(retry * 1.5); if (retry > 5000) retry = 5000;
NextRetry(retry) ==
    LET r == (retry * 3) \div 2 IN IF r > RETRY_MAX THEN RETRY_MAX ELSE r

\* the connection set changes: remember it when sends were already issued
Churn(newfds) == churn \/ (newfds # clients_fds /\ Len(senders) > 0)

(***************************************************************************)
(* sock_thread_listenner                                                   *)
(***************************************************************************)
\* sock_bind: the listener worker is started
sock_bind ==
    /\ l_pc = "none"
    /\ l_pc' = "setup"
    /\ UNCHANGED <<type, fdkind, fdpeer, l_socket, l_fds, r_pc, r_socket, r_fds, r_retry,
                   clients_fds, clients_index, clients_sem, senders, messengers, wire,
                   npeer, nfail, nconnfail, churn, unicast_log, bcast_log, overlap, reqvars, subvars, ctlvars>>

\* sock->cb.bind.fct (axon_bind_cb) is invoked after bind(): it calls the bind
\* callback of the user if one is set; n is the bind call of the worker
bind_cb(worker, n) ==
    IF cb_bind THEN Append(bind_log, [worker |-> worker, bind |-> n]) ELSE bind_log

\* socket(), FD_SET of the listening socket, setsockopt, bind, the bind
\* callback, listen
listenner_setup ==
    /\ l_pc = "setup"
    /\ FreeFds # {}
    /\ l_socket' = NewFd
    /\ l_fds' = {NewFd}
    /\ fdkind' = [fdkind EXCEPT ![NewFd] = "listen"]
    /\ bind_log' = bind_cb("l", 1)
    /\ l_pc' = "loop"
    /\ UNCHANGED <<type, fdpeer, r_pc, r_socket, r_fds, r_retry,
                   clients_fds, clients_index, clients_sem, senders, messengers, wire,
                   npeer, nfail, nconnfail, churn, unicast_log, bcast_log, overlap, reqvars, subvars,
                   readers, peer_up, extvars, relvars, l2_pc, l2_socket, cb_error, error_log, cb_bind>>

\* the listening socket is readable: accept, FD_SET in the listener's set and,
\* under the clients semaphore, in the connection set
listenner_accept ==
    /\ l_pc = "loop"
    /\ l_socket \in l_fds /\ fdkind[l_socket] = "listen"
    /\ npeer < MaxPeers
    /\ FreeFds # {}
    /\ clients_sem = 0
    /\ LET c == NewFd IN
        /\ fdkind' = [fdkind EXCEPT ![c] = "conn"]
        /\ fdpeer' = [fdpeer EXCEPT ![c] = npeer + 1]
        /\ l_fds' = l_fds \cup {c}
        /\ clients_fds' = clients_fds \cup {c}
        /\ churn' = Churn(clients_fds \cup {c})
    /\ npeer' = npeer + 1
    /\ UNCHANGED <<type, l_pc, l_socket, r_pc, r_socket, r_fds, r_retry,
                   clients_index, clients_sem, senders, messengers, wire,
                   nfail, nconnfail, unicast_log, bcast_log, overlap, reqvars, subvars, ctlvars>>

\* a new messenger worker: memset to 0, then the fields the caller stores
NewMessenger(socket, from) ==
    [socket |-> socket, from |-> from, peer |-> fdpeer[from], pc |-> "run"]

\* w->type.messenger.socket = index (sock.c:499)
listenner_messenger(index) == NewMessenger(index, index)

\* a peer socket of the listener is readable and FIONREAD reports size > 0:
\* the bytes are read and a messenger is started
listenner_read(index) ==
    /\ l_pc = "loop"
    /\ index \in l_fds /\ index # l_socket
    /\ fdkind[index] = "conn"
    /\ Len(messengers) < MaxMessengers
    /\ messengers' = Append(messengers, listenner_messenger(index))
    /\ UNCHANGED <<type, fdkind, fdpeer, l_pc, l_socket, l_fds, r_pc, r_socket, r_fds, r_retry,
                   clients_fds, clients_index, clients_sem, senders, wire,
                   npeer, nfail, nconnfail, churn, unicast_log, bcast_log, overlap, reqvars, subvars, ctlvars>>

\* a peer socket of the listener is reported readable with size 0 (the peer
\* closed, or the descriptor is no longer a socket), or the read is short:
\* FD_CLR in both sets, close
listenner_close(index) ==
    /\ l_pc = "loop"
    /\ index \in l_fds /\ index # l_socket
    /\ clients_sem = 0
    /\ l_fds' = l_fds \ {index}
    /\ clients_fds' = clients_fds \ {index}
    /\ churn' = Churn(clients_fds \ {index})
    /\ fdkind' = Close(fdkind, index)
    /\ fdpeer' = [fdpeer EXCEPT ![index] = 0]
    /\ UNCHANGED <<type, l_pc, l_socket, r_pc, r_socket, r_fds, r_retry,
                   clients_index, clients_sem, senders, messengers, wire,
                   npeer, nfail, nconnfail, unicast_log, bcast_log, overlap, reqvars, subvars, ctlvars>>

(***************************************************************************)
(* sock_thread_reader (the dialer)                                         *)
(***************************************************************************)
\* the hosts and ports the user connects to
Hosts == {"127.0.0.1", "10.0.0.1"}
Ports == {3000, 3001}

\* the worker lists of a transport, in the order sock_release walks them
Lists == <<"listenners", "readers", "messengers", "senders">>

\* sem_init(.., 0, 1) of the five semaphores of the transport and of the
\* subscriptions semaphore of the endpoint
SemInit ==
    [s \in {"listenners", "readers", "messengers", "senders", "clients", "subs"} |-> 1]

RelInit ==
    /\ workers = <<>>
    /\ rel = [pc |-> "idle", list |-> 1, cur |-> 0]
    /\ sem = SemInit
    /\ mem = [sock |-> "live", axon |-> "live", subs |-> "live"]
    /\ uaf = {}

BindInit ==
    /\ l2_pc = "none" /\ l2_socket = NoFd /\ cb_error = FALSE /\ error_log = <<>>
    /\ cb_bind = FALSE /\ bind_log = <<>>

RcvInit == net_dup = {}

CbInit == cb_pc = "idle" /\ cb_data = <<>> /\ cb_buffer = <<>> /\ cb_log = <<>>

DspInit ==
    /\ dsp = [m \in 1 .. MaxMessengers |-> [pc |-> "idle", curr |-> 0, seen |-> <<>>]]
    /\ usr = [pc |-> "idle", op |-> "none"]

\* the list after sock_create, and the workers after their malloc and memset
LstInit ==
    /\ chain = [first |-> 0, last |-> 0]
    /\ node = [w \in 1 .. MaxWorkers |-> [prev |-> 0, next |-> 0, st |-> "idle", th |-> "none"]]

OthInit == CbInit /\ DspInit /\ LstInit

ExtInit == RcvInit /\ OthInit

CtlInit == readers = <<>> /\ peer_up = FALSE /\ RelInit /\ BindInit /\ ExtInit

\* sock_connect(sock, hostname, port): the dialer worker is started and added
\* to the readers (one dialer here)
sock_connect(hostname, port) ==
    /\ r_pc = "none"
    /\ r_pc' = "connect"
    /\ readers' = Append(readers, [hostname |-> hostname, port |-> port])
    /\ UNCHANGED <<peer_up, extvars, relvars, bindvars, type, fdkind, fdpeer, l_pc, l_socket, l_fds, r_socket, r_fds, r_retry,
                   clients_fds, clients_index, clients_sem, senders, messengers, wire,
                   npeer, nfail, nconnfail, churn, unicast_log, bcast_log, overlap, reqvars, subvars>>

\* a sock_is_connected that would ask for a connection that is up
sock_is_connected_up(hostname, port) ==
    \E i \in 1 .. Len(readers) :
        readers[i].hostname = hostname /\ readers[i].port = port /\ r_socket \in clients_fds

\* sock_is_connected(sock, hostname, port): some reader of the list has that
\* hostname (strcmp) and that port
sock_is_connected(hostname, port) ==
    \E i \in 1 .. Len(readers) : readers[i].hostname = hostname /\ readers[i].port = port

\* socket() succeeds and connect() fails: back-off and retry; the socket just
\* created stays open
reader_connect_refused ==
    /\ r_pc = "connect"
    /\ FreeFds # {}
    /\ r_socket' = NewFd
    /\ fdkind' = [fdkind EXCEPT ![NewFd] = "unconn"]
    /\ r_retry' = NextRetry(r_retry)
    /\ nconnfail' = nconnfail + 1
    /\ UNCHANGED <<type, fdpeer, l_pc, l_socket, l_fds, r_pc, r_fds,
                   clients_fds, clients_index, clients_sem, senders, messengers, wire,
                   npeer, nfail, churn, unicast_log, bcast_log, overlap, reqvars, subvars, ctlvars>>

\* the same, for a bounded number of attempts
reader_connect_fail == nconnfail < MaxConnFails /\ reader_connect_refused

\* socket() fails, no descriptor is left to the process: back-off and retry
reader_socket_fail ==
    /\ r_pc = "connect"
    /\ FreeFds = {}
    /\ r_socket' = NoFd
    /\ r_retry' = NextRetry(r_retry)
    /\ UNCHANGED <<type, fdkind, fdpeer, l_pc, l_socket, l_fds, r_pc, r_fds,
                   clients_fds, clients_index, clients_sem, senders, messengers, wire,
                   npeer, nfail, nconnfail, churn, unicast_log, bcast_log, overlap, reqvars, subvars, ctlvars>>

\* socket() and connect() succeed: retry reset, FD_ZERO, FD_SET in the dialer's
\* set and, under the clients semaphore, in the connection set
reader_connect_ok ==
    /\ r_pc = "connect"
    /\ FreeFds # {}
    /\ npeer < MaxPeers
    /\ clients_sem = 0
    /\ LET c == NewFd IN
        /\ r_socket' = c
        /\ fdkind' = [fdkind EXCEPT ![c] = "conn"]
        /\ fdpeer' = [fdpeer EXCEPT ![c] = npeer + 1]
        /\ r_fds' = {c}
        /\ clients_fds' = clients_fds \cup {c}
        /\ churn' = Churn(clients_fds \cup {c})
    /\ npeer' = npeer + 1
    /\ r_retry' = RETRY_INIT
    /\ r_pc' = "connected"
    /\ UNCHANGED <<type, l_pc, l_socket, l_fds,
                   clients_index, clients_sem, senders, messengers, wire,
                   nfail, nconnfail, unicast_log, bcast_log, overlap, reqvars, subvars, ctlvars>>

\* the messenger of the dialer: only size and buffer are stored, so the socket
\* field keeps the 0 of the memset (sock.c:635-638)
reader_messenger(index) == NewMessenger(0, index)

\* the dialer's socket is readable with size > 0: read, start a messenger
reader_read ==
    /\ r_pc = "connected"
    /\ r_socket \in r_fds
    /\ fdkind[r_socket] = "conn"
    /\ Len(messengers) < MaxMessengers
    /\ messengers' = Append(messengers, reader_messenger(r_socket))
    /\ UNCHANGED <<type, fdkind, fdpeer, l_pc, l_socket, l_fds, r_pc, r_socket, r_fds, r_retry,
                   clients_fds, clients_index, clients_sem, senders, wire,
                   npeer, nfail, nconnfail, churn, unicast_log, bcast_log, overlap, reqvars, subvars, ctlvars>>

\* the dialer's socket is reported readable with size 0, or the read is short:
\* FD_CLR in both sets, close, connected = false
reader_close ==
    /\ r_pc = "connected"
    /\ r_socket \in r_fds
    /\ clients_sem = 0
    /\ r_fds' = r_fds \ {r_socket}
    /\ clients_fds' = clients_fds \ {r_socket}
    /\ churn' = Churn(clients_fds \ {r_socket})
    /\ fdkind' = Close(fdkind, r_socket)
    /\ fdpeer' = [fdpeer EXCEPT ![r_socket] = 0]
    /\ r_pc' = "connect"
    /\ UNCHANGED <<type, l_pc, l_socket, l_fds, r_socket, r_retry,
                   clients_index, clients_sem, senders, messengers, wire,
                   npeer, nfail, nconnfail, unicast_log, bcast_log, overlap, reqvars, subvars, ctlvars>>

(***************************************************************************)
(* sock_send and sock_thread_sender                                        *)
(***************************************************************************)
\* a new sender worker (sock_send): socket is a descriptor, SOCK_SEND_BROADCAST
\* or SOCK_SEND_ROUND_ROBIN; from is the descriptor the request was read from
\* when the send is a reply (history), NoFd otherwise; ret is what sock_send
\* returned to its caller once the worker was started, failed (history)
\* whether a send() of the worker failed
NewSender(socket, from) ==
    [socket |-> socket, from |-> from,
     pc |-> IF socket = SOCK_SEND_ROUND_ROBIN THEN "rr_search"
            ELSE IF socket = SOCK_SEND_BROADCAST THEN "bc_wait" ELSE "uni_send",
     pick |-> NoFd, index |-> 0, retry |-> RETRY_INIT, loop |-> 0, ret |-> 0, failed |-> FALSE]

NoBcast == [start |-> {}, wrote |-> {}, failed |-> {}]

\* axon_vsend: PUB sends by broadcast, PUSH and REQ by round-robin
SendMode == IF type = "pub" THEN SOCK_SEND_BROADCAST ELSE SOCK_SEND_ROUND_ROBIN

\* an axon_vsend that would not look at the type of the endpoint
may_send_any(t) == TRUE

\* the endpoint types on which axon_vsend goes on
may_send(t) == t \in {"pub", "push", "req"}

\* axon_send on a PUB or PUSH endpoint: the buffer is handed to a new sender
axon_send ==
    /\ may_send(type) /\ type # "req"
    /\ Len(senders) < MaxSenders
    /\ senders' = Append(senders, NewSender(SendMode, NoFd))
    /\ bcast_log' = Append(bcast_log, NoBcast)
    /\ overlap' = (overlap \/ \E w \in 1 .. Len(senders) : senders[w].pc # "done")
    /\ UNCHANGED <<type, fdkind, fdpeer, l_pc, l_socket, l_fds, r_pc, r_socket, r_fds, r_retry,
                   clients_fds, clients_index, clients_sem, messengers, wire,
                   npeer, nfail, nconnfail, churn, unicast_log, reqvars, subvars, ctlvars>>

\* the search loop of the round-robin branch, as written: every index of the
\* scan that is in the set overwrites socket
RECURSIVE rr_scan(_, _, _, _)
rr_scan(index, socket, fds, cursor) ==
    IF index >= FD_SETSIZE THEN socket
    ELSE LET tmp == (index + cursor + 1) % FD_SETSIZE IN
         rr_scan(index + 1, IF tmp \in fds THEN tmp ELSE socket, fds, cursor)

\* the socket the search finds, -1 when the set is empty
rr_search(fds, cursor) == rr_scan(0, NoFd, fds, cursor)

\* one turn of the while (0 > socket) loop: the scan under the semaphore, then
\* either the socket is found, or the back-off is updated and the sender
\* sleeps or gives up
sender_rr_search(w) ==
    /\ w \in 1 .. Len(senders)
    /\ senders[w].pc = "rr_search"
    /\ clients_sem = 0
    /\ LET s == rr_search(clients_fds, clients_index)
           r == (senders[w].retry * 3) \div 2
       IN  senders' = [senders EXCEPT ![w] =
              IF s >= 0 THEN [@ EXCEPT !.pick = s, !.pc = "rr_send"]
              ELSE IF r > RETRY_MAX
                   THEN IF LOOP_MAX < @.loop + 1
                        THEN [@ EXCEPT !.retry = RETRY_MAX, !.loop = @ + 1, !.pc = "end"]
                        ELSE [@ EXCEPT !.retry = RETRY_MAX, !.loop = @ + 1]
                   ELSE [@ EXCEPT !.retry = r]]
    /\ UNCHANGED <<type, fdkind, fdpeer, l_pc, l_socket, l_fds, r_pc, r_socket, r_fds, r_retry,
                   clients_fds, clients_index, clients_sem, messengers, wire,
                   npeer, nfail, nconnfail, churn, unicast_log, bcast_log, overlap, reqvars, subvars, ctlvars>>

\* send() on the socket found succeeds: the whole buffer is written
sender_rr_send_ok(w) ==
    /\ w \in 1 .. Len(senders)
    /\ senders[w].pc = "rr_send"
    /\ Writable(senders[w].pick)
    /\ wire' = [wire EXCEPT ![fdpeer[senders[w].pick]] = Append(@, w)]
    /\ senders' = [senders EXCEPT ![w].pc = "rr_inc"]
    /\ UNCHANGED <<type, fdkind, fdpeer, l_pc, l_socket, l_fds, r_pc, r_socket, r_fds, r_retry,
                   clients_fds, clients_index, clients_sem, messengers,
                   npeer, nfail, nconnfail, churn, unicast_log, bcast_log, overlap, reqvars, subvars, ctlvars>>

\* send() on the socket found fails (the peer reset the connection, or the
\* descriptor is no connected socket any more)
sender_rr_send_fail(w) ==
    /\ w \in 1 .. Len(senders)
    /\ senders[w].pc = "rr_send"
    /\ \/ ~Writable(senders[w].pick) /\ nfail' = nfail
       \/ Writable(senders[w].pick) /\ nfail < MaxFails /\ nfail' = nfail + 1
    /\ senders' = [senders EXCEPT ![w].pc = "rr_fail", ![w].failed = TRUE]
    /\ UNCHANGED <<type, fdkind, fdpeer, l_pc, l_socket, l_fds, r_pc, r_socket, r_fds, r_retry,
                   clients_fds, clients_index, clients_sem, messengers, wire,
                   npeer, nconnfail, churn, unicast_log, bcast_log, overlap, reqvars, subvars, ctlvars>>

\* after a failed send: FD_CLR and close under the semaphore
sender_rr_fail(w) ==
    /\ w \in 1 .. Len(senders)
    /\ senders[w].pc = "rr_fail"
    /\ clients_sem = 0
    /\ clients_fds' = clients_fds \ {senders[w].pick}
    /\ churn' = Churn(clients_fds \ {senders[w].pick})
    /\ fdkind' = Close(fdkind, senders[w].pick)
    /\ fdpeer' = [fdpeer EXCEPT ![senders[w].pick] = 0]
    /\ senders' = [senders EXCEPT ![w].pc = "rr_inc"]
    /\ UNCHANGED <<type, l_pc, l_socket, l_fds, r_pc, r_socket, r_fds, r_retry,
                   clients_index, clients_sem, messengers, wire,
                   npeer, nfail, nconnfail, unicast_log, bcast_log, overlap, reqvars, subvars, ctlvars>>

\* sock->clients.index = (sock->clients.index + 1) % FD_SETSIZE
rr_advance(cursor, pick) == (cursor + 1) % FD_SETSIZE

\* Increase Round-Robin index, under the semaphore
sender_rr_inc(w) ==
    /\ w \in 1 .. Len(senders)
    /\ senders[w].pc = "rr_inc"
    /\ clients_sem = 0
    /\ clients_index' = rr_advance(clients_index, senders[w].pick)
    /\ senders' = [senders EXCEPT ![w].pc = "end"]
    /\ UNCHANGED <<type, fdkind, fdpeer, l_pc, l_socket, l_fds, r_pc, r_socket, r_fds, r_retry,
                   clients_fds, clients_sem, messengers, wire,
                   npeer, nfail, nconnfail, churn, unicast_log, bcast_log, overlap, reqvars, subvars, ctlvars>>

\* sem_wait(&sock->clients.sem) of the broadcast branch
sender_bc_wait(w) ==
    /\ w \in 1 .. Len(senders)
    /\ senders[w].pc = "bc_wait"
    /\ clients_sem = 0
    /\ clients_sem' = w
    /\ senders' = [senders EXCEPT ![w].pc = "bc_loop", ![w].index = 0]
    /\ bcast_log' = [bcast_log EXCEPT ![w].start = clients_fds]
    /\ UNCHANGED <<type, fdkind, fdpeer, l_pc, l_socket, l_fds, r_pc, r_socket, r_fds, r_retry,
                   clients_fds, clients_index, messengers, wire,
                   npeer, nfail, nconnfail, churn, unicast_log, overlap, reqvars, subvars, ctlvars>>

\* a broadcast loop that a failed write ends
bc_next_break(index, failed) == IF failed THEN FD_SETSIZE ELSE index + 1

\* the index the broadcast loop goes to after index: the loop has no break, a
\* failed write does not end it
bc_next(index, failed) == index + 1

\* one turn of the broadcast loop, the semaphore held: the index is not in the
\* set
sender_bc_skip(w) ==
    /\ w \in 1 .. Len(senders)
    /\ senders[w].pc = "bc_loop" /\ clients_sem = w
    /\ senders[w].index < FD_SETSIZE
    /\ senders[w].index \notin clients_fds
    /\ senders' = [senders EXCEPT ![w].index = bc_next(@, FALSE)]
    /\ UNCHANGED <<type, fdkind, fdpeer, l_pc, l_socket, l_fds, r_pc, r_socket, r_fds, r_retry,
                   clients_fds, clients_index, clients_sem, messengers, wire,
                   npeer, nfail, nconnfail, churn, unicast_log, bcast_log, overlap, reqvars, subvars, ctlvars>>

\* one turn of the broadcast loop: the index is in the set and send() writes
\* the whole buffer
sender_bc_send_ok(w) ==
    /\ w \in 1 .. Len(senders)
    /\ senders[w].pc = "bc_loop" /\ clients_sem = w
    /\ senders[w].index < FD_SETSIZE
    /\ senders[w].index \in clients_fds
    /\ Writable(senders[w].index)
    /\ wire' = [wire EXCEPT ![fdpeer[senders[w].index]] = Append(@, w)]
    /\ bcast_log' = [bcast_log EXCEPT ![w].wrote = @ \cup {senders[w].index}]
    /\ senders' = [senders EXCEPT ![w].index = bc_next(@, FALSE)]
    /\ UNCHANGED <<type, fdkind, fdpeer, l_pc, l_socket, l_fds, r_pc, r_socket, r_fds, r_retry,
                   clients_fds, clients_index, clients_sem, messengers,
                   npeer, nfail, nconnfail, churn, unicast_log, overlap, reqvars, subvars, ctlvars>>

\* one turn of the broadcast loop: the index is in the set and send() fails:
\* FD_CLR, close
sender_bc_send_fail(w) ==
    /\ w \in 1 .. Len(senders)
    /\ senders[w].pc = "bc_loop" /\ clients_sem = w
    /\ senders[w].index < FD_SETSIZE
    /\ senders[w].index \in clients_fds
    /\ \/ ~Writable(senders[w].index) /\ nfail' = nfail
       \/ Writable(senders[w].index) /\ nfail < MaxFails /\ nfail' = nfail + 1
    /\ clients_fds' = clients_fds \ {senders[w].index}
    /\ churn' = Churn(clients_fds \ {senders[w].index})
    /\ fdkind' = Close(fdkind, senders[w].index)
    /\ fdpeer' = [fdpeer EXCEPT ![senders[w].index] = 0]
    /\ bcast_log' = [bcast_log EXCEPT ![w].failed = @ \cup {senders[w].index}]
    /\ senders' = [senders EXCEPT ![w].index = bc_next(@, TRUE), ![w].failed = TRUE]
    /\ UNCHANGED <<type, l_pc, l_socket, l_fds, r_pc, r_socket, r_fds, r_retry,
                   clients_index, clients_sem, messengers, wire,
                   npeer, nconnfail, unicast_log, overlap, reqvars, subvars, ctlvars>>

\* the loop is over: sem_post(&sock->clients.sem)
sender_bc_post(w) ==
    /\ w \in 1 .. Len(senders)
    /\ senders[w].pc = "bc_loop" /\ clients_sem = w
    /\ senders[w].index >= FD_SETSIZE
    /\ clients_sem' = 0
    /\ senders' = [senders EXCEPT ![w].pc = "end"]
    /\ UNCHANGED <<type, fdkind, fdpeer, l_pc, l_socket, l_fds, r_pc, r_socket, r_fds, r_retry,
                   clients_fds, clients_index, messengers, wire,
                   npeer, nfail, nconnfail, churn, unicast_log, bcast_log, overlap, reqvars, subvars, ctlvars>>

\* the unicast branch: send() on worker->type.sender.socket succeeds
sender_uni_send_ok(w) ==
    /\ w \in 1 .. Len(senders)
    /\ senders[w].pc = "uni_send"
    /\ Writable(senders[w].socket)
    /\ wire' = [wire EXCEPT ![fdpeer[senders[w].socket]] = Append(@, w)]
    /\ unicast_log' = unicast_log \cup {[from |-> senders[w].from, to |-> senders[w].socket]}
    /\ senders' = [senders EXCEPT ![w].pc = "end"]
    /\ UNCHANGED <<type, fdkind, fdpeer, l_pc, l_socket, l_fds, r_pc, r_socket, r_fds, r_retry,
                   clients_fds, clients_index, clients_sem, messengers,
                   npeer, nfail, nconnfail, churn, bcast_log, overlap, reqvars, subvars, ctlvars>>

\* the unicast branch: send() on worker->type.sender.socket fails
sender_uni_send_fail(w) ==
    /\ w \in 1 .. Len(senders)
    /\ senders[w].pc = "uni_send"
    /\ \/ ~Writable(senders[w].socket) /\ nfail' = nfail
       \/ Writable(senders[w].socket) /\ nfail < MaxFails /\ nfail' = nfail + 1
    /\ unicast_log' = unicast_log \cup {[from |-> senders[w].from, to |-> senders[w].socket]}
    /\ senders' = [senders EXCEPT ![w].pc = "uni_fail", ![w].failed = TRUE]
    /\ UNCHANGED <<type, fdkind, fdpeer, l_pc, l_socket, l_fds, r_pc, r_socket, r_fds, r_retry,
                   clients_fds, clients_index, clients_sem, messengers, wire,
                   npeer, nconnfail, churn, bcast_log, overlap, reqvars, subvars, ctlvars>>

\* after a failed unicast send: FD_CLR and close under the semaphore
sender_uni_fail(w) ==
    /\ w \in 1 .. Len(senders)
    /\ senders[w].pc = "uni_fail"
    /\ clients_sem = 0
    /\ clients_fds' = clients_fds \ {senders[w].socket}
    /\ churn' = Churn(clients_fds \ {senders[w].socket})
    /\ fdkind' = Close(fdkind, senders[w].socket)
    /\ fdpeer' = [fdpeer EXCEPT ![senders[w].socket] = 0]
    /\ senders' = [senders EXCEPT ![w].pc = "end"]
    /\ UNCHANGED <<type, l_pc, l_socket, l_fds, r_pc, r_socket, r_fds, r_retry,
                   clients_index, clients_sem, messengers, wire,
                   npeer, nfail, nconnfail, unicast_log, bcast_log, overlap, reqvars, subvars, ctlvars>>

\* END: sock_remove_worker, free of the buffer and of the worker
sender_end(w) ==
    /\ w \in 1 .. Len(senders)
    /\ senders[w].pc = "end"
    /\ senders' = [senders EXCEPT ![w].pc = "done"]
    /\ UNCHANGED <<type, fdkind, fdpeer, l_pc, l_socket, l_fds, r_pc, r_socket, r_fds, r_retry,
                   clients_fds, clients_index, clients_sem, messengers, wire,
                   npeer, nfail, nconnfail, churn, unicast_log, bcast_log, overlap, reqvars, subvars, ctlvars>>

(***************************************************************************)
(* sock_thread_messenger: the message callback of the transport is         *)
(* axon_message_cb, registered for SUB, PULL, REQ and REP.  For the        *)
(* transport only its call of sock_send matters: a REP endpoint whose      *)
(* callback returned a reply sends it to the socket argument, which is     *)
(* worker->type.messenger.socket.                                          *)
(***************************************************************************)
\* sock_send(axon->sock, buffer_rep, size_rep, socket)
rep_reply_sender(m) == NewSender(messengers[m].socket, messengers[m].from)

\* the REP callback returned a reply
messenger_reply(m) ==
    /\ m \in 1 .. Len(messengers)
    /\ messengers[m].pc = "run"
    /\ type = "rep"
    /\ Len(senders) < MaxSenders
    /\ senders' = Append(senders, rep_reply_sender(m))
    /\ bcast_log' = Append(bcast_log, NoBcast)
    /\ messengers' = [messengers EXCEPT ![m].pc = "done"]
    /\ UNCHANGED <<type, fdkind, fdpeer, l_pc, l_socket, l_fds, r_pc, r_socket, r_fds, r_retry,
                   clients_fds, clients_index, clients_sem, wire,
                   npeer, nfail, nconnfail, churn, unicast_log, overlap, reqvars, subvars, ctlvars>>

\* no message callback is registered in the transport (PUB, PUSH), or the REP
\* callback returned no reply: nothing is sent
messenger_noreply(m) ==
    /\ m \in 1 .. Len(messengers)
    /\ messengers[m].pc = "run"
    /\ messengers' = [messengers EXCEPT ![m].pc = "done"]
    /\ UNCHANGED <<type, fdkind, fdpeer, l_pc, l_socket, l_fds, r_pc, r_socket, r_fds, r_retry,
                   clients_fds, clients_index, clients_sem, senders, wire,
                   npeer, nfail, nconnfail, churn, unicast_log, bcast_log, overlap, reqvars, subvars, ctlvars>>

\* amp_decode of the buffer fails, or the message decoded has no field:
\* amp_release and return; the messenger ends
messenger_decode_fail(m) ==
    /\ m \in 1 .. Len(messengers)
    /\ messengers[m].pc = "run"
    /\ messengers' = [messengers EXCEPT ![m].pc = "dropped"]
    /\ UNCHANGED <<type, fdkind, fdpeer, l_pc, l_socket, l_fds, r_pc, r_socket, r_fds, r_retry,
                   clients_fds, clients_index, clients_sem, senders, wire,
                   npeer, nfail, nconnfail, churn, unicast_log, bcast_log, overlap, reqvars, subvars, ctlvars>>

(***************************************************************************)
(* The request / reply engine: axon_vsend on a REQ endpoint, and           *)
(* axon_message_cb on the REP and on the REQ endpoint.  The transport      *)
(* between the two endpoints is net_req and net_rep.                       *)
(***************************************************************************)
\* timeouts (ms) the callers pass
Timeouts == {200, 1000}

Max(S) == CHOOSE x \in S : \A y \in S : x >= y

NoQueue == 0

ReqInit ==
    /\ msg_id = 0
    /\ requesters = [r \in 1 .. MaxReq |->
          [pc |-> "idle", timeout |-> 0, id |-> <<>>, mq |-> NoQueue, started |-> FALSE,
           elapsed |-> 0, waited |-> -1, tmp |-> NoMsg, tmp_id |-> <<>>, ret |-> 1,
           resp |-> NoMsg, in_time |-> FALSE]]
    /\ queues = <<>>
    /\ net_req = {} /\ net_rep = {}
    /\ rx = <<>>
    /\ replied = [r \in 1 .. MaxReq |-> NoMsg]

\* the queue a name is linked to, NoQueue if none
Lookup(name) ==
    IF \E q \in 1 .. Len(queues) : queues[q].linked /\ queues[q].name = name
    THEN CHOOSE q \in 1 .. Len(queues) : queues[q].linked /\ queues[q].name = name
    ELSE NoQueue

\* the fields the user of requester r passes to axon_send
Body(r) == <<[type |-> "JSON", data |-> r]>>

\* snprintf of the id: axon->msg_id is read
rq_id(r) ==
    /\ may_send(type) /\ type \notin {"pub", "push"}
    /\ requesters[r].pc = "idle"
    /\ \E T \in Timeouts :
        requesters' = [requesters EXCEPT ![r].pc = "inc", ![r].timeout = T,
                                         ![r].id = str_id(msg_id)]
    /\ UNCHANGED <<sockvars, subvars, ctlvars, msg_id, queues, net_req, net_rep, rx, replied>>

\* an axon_vsend that would issue the send before creating the queue
rq_inc_nomq(r) ==
    /\ requesters[r].pc = "inc"
    /\ msg_id' = msg_id + 1
    /\ requesters' = [requesters EXCEPT ![r].pc = "send"]
    /\ UNCHANGED <<sockvars, subvars, ctlvars, queues, net_req, net_rep, rx, replied>>

\* axon->msg_id++ (an unsigned int: it wraps at 2^32, far beyond the sends
\* of one behaviour)
rq_inc(r) ==
    /\ requesters[r].pc = "inc"
    /\ msg_id' = msg_id + 1
    /\ requesters' = [requesters EXCEPT ![r].pc = "mq"]
    /\ UNCHANGED <<sockvars, subvars, ctlvars, queues, net_req, net_rep, rx, replied>>

\* mq_open(str_mq, O_CREAT | O_RDONLY, 0644, &attr): the queue of that name is
\* opened, and created when there is none
rq_mq_open(r) ==
    /\ requesters[r].pc = "mq"
    /\ LET name == str_mq(requesters[r].id)
           q == Lookup(name)
       IN  IF q = NoQueue
           THEN /\ queues' = Append(queues, [name |-> name, linked |-> TRUE, msgs |-> <<>>])
                /\ requesters' = [requesters EXCEPT ![r].pc = "send", ![r].mq = Len(queues) + 1]
           ELSE /\ queues' = queues
                /\ requesters' = [requesters EXCEPT ![r].pc = "send", ![r].mq = q]
    /\ UNCHANGED <<sockvars, subvars, ctlvars, msg_id, net_req, net_rep, rx, replied>>

\* sock_send of the encoded request (the user's fields, then the id field),
\* then clock_gettime: the wait starts
rq_sock_send(r) ==
    /\ requesters[r].pc = "send"
    /\ net_req' = net_req \cup {[fields |-> Body(r) \o <<IdField(requesters[r].id)>>, req |-> r]}
    /\ requesters' = [requesters EXCEPT ![r].pc = "recv", ![r].started = TRUE, ![r].elapsed = 0]
    /\ UNCHANGED <<sockvars, subvars, ctlvars, msg_id, queues, net_rep, rx, replied>>

\* amp_encode fails: amp_release and return -1, before any queue is opened
rq_encode_fail(r) ==
    /\ requesters[r].pc = "mq"
    /\ requesters' = [requesters EXCEPT ![r].pc = "done", ![r].ret = -1]
    /\ UNCHANGED <<sockvars, subvars, ctlvars, msg_id, queues, net_req, net_rep, rx, replied>>

\* mq_open fails: free(buffer) and return -1; no queue was created
rq_mq_open_fail(r) ==
    /\ requesters[r].pc = "mq"
    /\ requesters' = [requesters EXCEPT ![r].pc = "done", ![r].ret = -1, ![r].mq = NoQueue]
    /\ UNCHANGED <<sockvars, subvars, ctlvars, msg_id, queues, net_req, net_rep, rx, replied>>

\* sock_send fails (no sender worker could be started): mq_close(mq),
\* mq_unlink(str_mq), free(buffer) and return -1
rq_sock_send_fail(r) ==
    /\ requesters[r].pc = "send"
    /\ LET q == Lookup(str_mq(requesters[r].id)) IN
        queues' = IF q = NoQueue THEN queues ELSE [queues EXCEPT ![q].linked = FALSE]
    /\ requesters' = [requesters EXCEPT ![r].pc = "done", ![r].ret = -1]
    /\ UNCHANGED <<sockvars, subvars, ctlvars, msg_id, net_req, net_rep, rx, replied>>

\* tm.tv_sec += timeout / 1000: the time (ms) after clock_gettime at which
\* mq_timedreceive gives up
deadline(timeout) == (timeout \div 1000) * 1000

\* mq_timedreceive returns the message of the queue
rq_recv_ok(r) ==
    /\ requesters[r].pc = "recv"
    /\ queues[requesters[r].mq].msgs # <<>>
    /\ LET m == Head(queues[requesters[r].mq].msgs) IN
        requesters' = [requesters EXCEPT ![r].pc = "ok_close", ![r].tmp = m.amp,
                                         ![r].tmp_id = m.id]
    /\ queues' = [queues EXCEPT ![requesters[r].mq].msgs = Tail(@)]
    /\ rx' = [rx EXCEPT ![Head(queues[requesters[r].mq].msgs).rx].amp_state = "delivered"]
    /\ UNCHANGED <<sockvars, subvars, ctlvars, msg_id, net_req, net_rep, replied>>

\* mq_timedreceive fails: the queue is empty and the deadline has passed
rq_recv_timeout(r) ==
    /\ requesters[r].pc = "recv"
    /\ queues[requesters[r].mq].msgs = <<>>
    /\ requesters[r].elapsed >= deadline(requesters[r].timeout)
    /\ requesters' = [requesters EXCEPT ![r].pc = "to_close", ![r].waited = requesters[r].elapsed]
    /\ UNCHANGED <<sockvars, subvars, ctlvars, msg_id, queues, net_req, net_rep, rx, replied>>

\* mq_close(mq), mq_unlink(str_mq), then return: -1 after a timeout, else
\* *resp = tmp and 0
rq_cleanup(r) ==
    /\ requesters[r].pc \in {"ok_close", "to_close"}
    /\ LET q == Lookup(str_mq(requesters[r].id)) IN
        queues' = IF q = NoQueue THEN queues ELSE [queues EXCEPT ![q].linked = FALSE]
    /\ requesters' = [requesters EXCEPT ![r] =
          IF @.pc = "ok_close"
          THEN [@ EXCEPT !.pc = "done", !.ret = 0, !.resp = requesters[r].tmp]
          ELSE [@ EXCEPT !.pc = "done", !.ret = -1]]
    /\ UNCHANGED <<sockvars, subvars, ctlvars, msg_id, net_req, net_rep, rx, replied>>

\* the clock of a send runs from its clock_gettime until its timeout has
\* elapsed (later instants are not told apart)
Running(r) == requesters[r].started /\ requesters[r].elapsed < requesters[r].timeout

\* time passes for every send whose clock runs
Tick ==
    /\ \E r \in 1 .. MaxReq : Running(r)
    /\ requesters' = [r \in 1 .. MaxReq |->
          IF Running(r)
          THEN [requesters[r] EXCEPT !.elapsed = @ + Min(Timeouts)]
          ELSE requesters[r]]
    /\ UNCHANGED <<sockvars, subvars, ctlvars, msg_id, queues, net_req, net_rep, rx, replied>>

(***************************************************************************)
(* axon_message_cb on the REP endpoint.                                    *)
(***************************************************************************)
\* no reply: the callback returned NULL
NoReply == [count |-> -2, fields |-> <<>>]

\* the replies the REP callback may build with axon_reply for the request of
\* requester r: no field, one field, two fields
Replies(r) ==
    {Amp(<<>>), Amp(<<[type |-> "JSON", data |-> r]>>),
     Amp(<<[type |-> "JSON", data |-> r], [type |-> "STRING", data |-> "bye"]>>)}

\* amp_push(rep, id_field->type, id_field->data, id_field->size), then
\* amp_encode: the frame of the reply
rep_frame(rep, id_field) == rep.fields \o <<id_field>>

\* what is recorded for a request when no message callback is registered
NoCallback == [count |-> -3, fields |-> <<>>]

\* a REP endpoint that would encode and send whatever the callback left
rep_sends_always(rep) == TRUE

\* NULL != axon->cb.message.fct and NULL != rep: the reply is encoded and sent
rep_sends(rep) == rep \notin {NoCallback, NoReply}

\* the REP endpoint decodes a request, strips the id, runs the callback if one
\* is registered and, when the callback returned a reply, sends the reply with
\* the id re-appended
rep_message_cb(frame) ==
    /\ frame \in net_req
    /\ Len(frame.fields) >= 1
    /\ net_req' = net_req \ {frame}
    /\ LET id_field == Last(frame.fields)
           amp == strip_id(Amp(frame.fields))
       IN  \E registered \in BOOLEAN :
           \E rep \in IF registered THEN Replies(frame.req) \cup {NoReply} ELSE {NoCallback} :
              /\ replied' = [replied EXCEPT ![frame.req] = rep]
              /\ net_rep' = IF rep_sends(rep)
                            THEN net_rep \cup {[fields |-> rep_frame(rep, id_field), req |-> frame.req]}
                            ELSE net_rep
    /\ UNCHANGED <<sockvars, subvars, ctlvars, msg_id, requesters, queues, rx>>

(***************************************************************************)
(* axon_message_cb on the REQ endpoint (the receive path).                 *)
(***************************************************************************)
\* a receive path that would post every reply to the queue of the first id
rx_mq_name_first(id_field) == str_mq(str_id(0))

\* the name of the queue the receive path opens for a reply
rx_mq_name(id_field) == str_mq(id_field.data)

\* a peer sends a reply a second time while the first copy is on its way
peer_resend(frame) ==
    /\ frame \in net_rep
    /\ net_dup = {}
    /\ net_dup' = {frame}
    /\ UNCHANGED <<sockvars, reqvars, subvars, readers, peer_up, relvars, bindvars, othvars>>

\* read() of the REQ endpoint's worker takes a reply frame off the connection
net_read(frame) ==
    IF frame \in net_rep
    THEN net_rep' = net_rep \ {frame} /\ net_dup' = net_dup
    ELSE net_dup' = net_dup \ {frame} /\ net_rep' = net_rep

\* the messenger of a reply frame after the decode and the strip of the id field
NewRx(frame) ==
    [pc |-> "open", amp |-> strip_id(Amp(frame.fields)), id_field |-> Last(frame.fields),
     mq |-> NoQueue, req |-> frame.req, amp_state |-> "held"]

\* a reply frame is read and decoded, its id field stripped, and
\* mq_open(str_mq, O_WRONLY) succeeds: a queue of that name exists
rx_open_ok(frame) ==
    /\ Len(frame.fields) >= 1
    /\ Len(rx) < MaxReq
    /\ net_read(frame)
    /\ LET q == Lookup(rx_mq_name(Last(frame.fields))) IN
        /\ q # NoQueue
        /\ rx' = Append(rx, [NewRx(frame) EXCEPT !.pc = "mqsend", !.mq = q])
    /\ UNCHANGED <<sockvars, subvars, readers, peer_up, relvars, bindvars, othvars,
                   msg_id, requesters, queues, net_req, replied>>

\* a reply frame is read and decoded, its id field stripped, and mq_open
\* fails: no queue of that name; amp_release, free of the id field
rx_open_fail(frame) ==
    /\ Len(frame.fields) >= 1
    /\ Len(rx) < MaxReq
    /\ net_read(frame)
    /\ Lookup(rx_mq_name(Last(frame.fields))) = NoQueue
    /\ rx' = Append(rx, [NewRx(frame) EXCEPT !.pc = "done", !.amp_state = "released"])
    /\ requesters' = [requesters EXCEPT ![frame.req].in_time = @ \/ Running(frame.req)]
    /\ UNCHANGED <<sockvars, subvars, readers, peer_up, relvars, bindvars, othvars,
                   msg_id, queues, net_req, replied>>

\* what a freed field may read as
Freed == [type |-> "FREED", data |-> <<>>]

\* the message after free(id_field->data) and free(id_field): when the id was
\* the only field, first and last still point to it, and a read through them
\* finds the old bytes or anything else
after_free(amp) ==
    IF amp.count < Len(amp.fields)
    THEN {amp, [amp EXCEPT !.fields = <<Freed>>]}
    ELSE {amp}

\* mq_send of the message pointer (the queue holds one message at most,
\* mq_maxmsg = 1, and the call blocks while it is full), then mq_close and
\* free of the id field
rx_mq_send(x) ==
    /\ x \in 1 .. Len(rx)
    /\ rx[x].pc = "mqsend"
    /\ Len(queues[rx[x].mq].msgs) < 1
    /\ \E amp \in after_free(rx[x].amp) :
        queues' = [queues EXCEPT ![rx[x].mq].msgs =
                      Append(@, [amp |-> amp, id |-> rx[x].id_field.data, rx |-> x])]
    /\ rx' = [rx EXCEPT ![x].pc = "done", ![x].amp_state = "queued"]
    /\ requesters' = [requesters EXCEPT ![rx[x].req].in_time = @ \/ Running(rx[x].req)]
    /\ UNCHANGED <<sockvars, subvars, ctlvars, msg_id, net_req, net_rep, replied>>

(***************************************************************************)
(* Subscriptions: axon_on, axon_subscribe, axon_unsubscribe, and           *)
(* axon_message_cb on a SUB or PULL endpoint.  Strings are sequences of    *)
(* characters.                                                             *)
(***************************************************************************)
NULL == "NULL"

\* the callbacks the user registers
Fcts == {"f", "g"}

\* the callback and user data the user subscribes with
Registrations ==
    {[fct |-> NULL, user |-> NULL], [fct |-> "f", user |-> "u"], [fct |-> "g", user |-> "v"]}

\* the patterns the user subscribes with: top.*  topic1  opic  ^top  (
Patterns ==
    {<<"t", "o", "p", ".", "*">>, <<"t", "o", "p", "i", "c", "1">>,
     <<"o", "p", "i", "c">>, <<"^", "t", "o", "p">>, <<"(">>}

\* the topics the publishers use: topic1  atop  news
Topics == {<<"t", "o", "p", "i", "c", "1">>, <<"a", "t", "o", "p">>, <<"n", "e", "w", "s">>}

\* the first field of a received message: a topic, or a field of another type
FirstFields ==
    {[type |-> "STRING", data |-> t] : t \in Topics}
        \cup {[type |-> "JSON", data |-> <<"{", "}">>], [type |-> "BLOB", data |-> <<"b">>]}

\* the fields that follow it: none, one, or two in either order
Payloads ==
    LET hi == [type |-> "STRING", data |-> <<"h", "i">>]
        js == [type |-> "JSON", data |-> <<"{", "}">>]
    IN  {<<>>, <<hi>>, <<hi, js>>, <<js, hi>>}

\* the messages amp_decode yields (at least one field)
Messages == {Amp(<<f>> \o p) : f \in FirstFields, p \in Payloads}

NoDispatch == [msg |-> NoMsg, generic |-> <<>>, calls |-> <<>>, amp |-> NoMsg]

NoCall ==
    [op |-> "none", topic |-> <<>>, fct |-> NULL, user |-> NULL, before |-> <<>>, ret |-> 0,
     msg |-> NoMsg]

SubInit ==
    /\ subs = <<>>
    /\ cb_message = NULL
    /\ dispatched = NoDispatch
    /\ last_call = NoCall

\* a subscribe and unsubscribe that would never find the topic
sub_find_none(topic) == 0

\* the index of the subscription of that topic, 0 if none: the strcmp loop
sub_find(topic) ==
    IF \E i \in 1 .. Len(subs) : subs[i].topic = topic
    THEN CHOOSE i \in 1 .. Len(subs) : subs[i].topic = topic
    ELSE 0

\* axon_on(axon, "message", fct, user)
axon_on_message(fct) ==
    /\ cb_message' = fct
    /\ dispatched' = NoDispatch
    /\ last_call' = NoCall
    /\ UNCHANGED <<sockvars, reqvars, ctlvars, subs>>

\* the endpoint types on which axon_subscribe and axon_unsubscribe work
may_subscribe(t) == t \in {"sub", "pull"}

\* axon_subscribe(axon, topic, fct, user): -1 on an endpoint that is neither
\* SUB nor PULL; else the callback and the user data of the entry of that
\* topic are replaced, or a new entry is linked after the last one
axon_subscribe(topic, fct, user) ==
    /\ LET i == sub_find(topic)
           call == [op |-> "subscribe", topic |-> topic, fct |-> fct, user |-> user,
                    before |-> subs, ret |-> 0, msg |-> NoMsg]
       IN  IF ~may_subscribe(type)
           THEN /\ subs' = subs
                /\ last_call' = [call EXCEPT !.ret = -1]
           ELSE /\ IF i # 0
                   THEN subs' = [subs EXCEPT ![i].fct = fct, ![i].user = user]
                   ELSE /\ Len(subs) < MaxSubs
                        /\ subs' = Append(subs, [topic |-> topic, fct |-> fct, user |-> user])
                /\ last_call' = call
    /\ dispatched' = NoDispatch
    /\ UNCHANGED <<sockvars, reqvars, ctlvars, cb_message>>

\* an unsubscribe that would drop the entries after the one it unlinks
sub_unlink_rest(list, i) == SubSeq(list, 1, i - 1)

\* the subscriptions without entry i
sub_unlink(list, i) == SubSeq(list, 1, i - 1) \o SubSeq(list, i + 1, Len(list))

\* axon_unsubscribe(axon, topic): -1 on an endpoint that is neither SUB nor
\* PULL; else the entry of that topic is unlinked and freed
axon_unsubscribe(topic) ==
    /\ LET i == sub_find(topic)
           call == [op |-> "unsubscribe", topic |-> topic, fct |-> NULL, user |-> NULL,
                    before |-> subs, ret |-> 0, msg |-> NoMsg]
       IN  IF ~may_subscribe(type)
           THEN /\ subs' = subs
                /\ last_call' = [call EXCEPT !.ret = -1]
           ELSE /\ subs' = IF i # 0 THEN sub_unlink(subs, i) ELSE subs
                /\ last_call' = call
    /\ dispatched' = NoDispatch
    /\ UNCHANGED <<sockvars, reqvars, ctlvars, cb_message>>

\* regcomp(&regex, pattern, REG_NOSUB | REG_EXTENDED) = 0.  The patterns hold
\* no ")" so every "(" is unmatched and the compilation fails (REG_EPAREN);
\* a "*" has something to repeat in every other pattern.
regcomp(re) == \A i \in 1 .. Len(re) : re[i] # "("

Drop(s, k) == SubSeq(s, k + 1, Len(s))

\* c matches the character d
match_char(c, d) == c = "." \/ c = d

RECURSIVE match_here(_, _)
\* the pattern re matches a prefix of text: a character, ".", and a character
\* or "." followed by "*"
match_here(re, text) ==
    IF re = <<>> THEN TRUE
    ELSE IF Len(re) >= 2 /\ re[2] = "*"
         THEN \E k \in 0 .. Len(text) :
                /\ \A j \in 1 .. k : match_char(re[1], text[j])
                /\ match_here(Drop(re, 2), Drop(text, k))
         ELSE /\ text # <<>>
              /\ match_char(re[1], text[1])
              /\ match_here(Tail(re), Tail(text))

\* a receive path that would require the pattern to match the whole topic
\* (both are closed by an end mark)
regexec_whole(re, text) ==
    LET r == IF re # <<>> /\ re[1] = "^" THEN Tail(re) ELSE re
    IN  match_here(r \o <<"$">>, text \o <<"$">>)

\* regexec(&regex, text, 0, NULL, 0) = 0: the pattern matches at some position
\* of the text (at the first only after "^")
regexec(re, text) ==
    IF re # <<>> /\ re[1] = "^"
    THEN match_here(Tail(re), text)
    ELSE \E k \in 0 .. Len(text) : match_here(re, Drop(text, k))

\* a receive path that would take every first field for a topic
is_topic_any(field) == TRUE

\* AMP_TYPE_STRING == amp->first->type (the data of a decoded field is never
\* NULL)
is_topic(field) == field.type = "STRING"

\* a receive path that would hand the message over with its topic
strip_topic_keep(amp) == amp

\* amp->first = amp->first->next; amp->count--;
strip_topic(amp) == [count |-> amp.count - 1, fields |-> Tail(amp.fields)]

\* the callback of subscription i is invoked for the topic
sub_invoked(i, topic) ==
    /\ subs[i].fct # NULL
    /\ regcomp(subs[i].topic)
    /\ regexec(subs[i].topic, topic)

RECURSIVE sub_loop(_, _, _)
\* the while loop over the subscriptions from curr_sub on: the invocations
\* made, in order
sub_loop(curr_sub, topic, amp) ==
    IF curr_sub > Len(subs) THEN <<>>
    ELSE (IF sub_invoked(curr_sub, topic)
          THEN <<[sub |-> curr_sub, fct |-> subs[curr_sub].fct, user |-> subs[curr_sub].user,
                  topic |-> topic, amp |-> amp]>>
          ELSE <<>>) \o sub_loop(curr_sub + 1, topic, amp)

\* axon_message_cb on a SUB or PULL endpoint for one decoded message: the
\* message callback, then under the subscriptions semaphore the topic is
\* extracted and the subscriptions are parsed
sub_message_cb(msg) ==
    /\ type \in {"sub", "pull"}
    /\ LET generic == IF cb_message # NULL THEN <<[fct |-> cb_message, amp |-> msg]>> ELSE <<>>
           extract == subs # <<>> /\ is_topic(msg.fields[1])
           amp == IF extract THEN strip_topic(msg) ELSE msg
           calls == IF extract THEN sub_loop(1, msg.fields[1].data, amp) ELSE <<>>
       IN  dispatched' = [msg |-> msg, generic |-> generic, calls |-> calls, amp |-> amp]
    /\ last_call' = NoCall
    /\ UNCHANGED <<sockvars, reqvars, ctlvars, subs, cb_message>>

(***************************************************************************)
(* The calls that depend on the type of the endpoint.                      *)
(***************************************************************************)
\* axon_send on an endpoint that is not PUB, PUSH or REQ: -1 at once
axon_send_refused ==
    /\ ~may_send(type)
    /\ last_call' = [NoCall EXCEPT !.op = "send", !.ret = -1]
    /\ dispatched' = NoDispatch
    /\ UNCHANGED <<sockvars, reqvars, ctlvars, subs, cb_message>>

\* the endpoint types on which axon_reply builds a message
may_reply(t) == t = "rep"

\* axon_reply(axon, count, ...): NULL on an endpoint that is not REP, else the
\* message of the fields
axon_reply(fields) ==
    /\ last_call' = [NoCall EXCEPT !.op = "reply",
                                   !.msg = IF may_reply(type) THEN Amp(fields) ELSE NoReply]
    /\ dispatched' = NoDispatch
    /\ UNCHANGED <<sockvars, reqvars, ctlvars, subs, cb_message>>

(***************************************************************************)
(* The remote peer of the dialer.                                          *)
(***************************************************************************)
\* the peer starts to accept connections
peer_start ==
    /\ ~peer_up
    /\ peer_up' = TRUE
    /\ UNCHANGED <<sockvars, reqvars, subvars, readers, relvars, bindvars, extvars>>

\* the peer stops
peer_stop ==
    /\ peer_up
    /\ peer_up' = FALSE
    /\ UNCHANGED <<sockvars, reqvars, subvars, readers, relvars, bindvars, extvars>>

\* connect() to a peer that does not accept connections
dial_connect_fail == ~peer_up /\ reader_connect_refused

\* connect() to a peer that accepts connections
dial_connect_ok == peer_up /\ reader_connect_ok

(***************************************************************************)
(* Worker threads and the release of the endpoint (sock_start_worker, the  *)
(* end of the four thread functions, sock_release, axon_release).          *)
(*                                                                         *)
(* A worker is at "run" (between two cancellation points, using its record *)
(* and its buffer), at "wait" (at a cancellation point without a           *)
(* semaphore: select, read, usleep, sem_wait), at "cb" (a messenger in a   *)
(* subscription callback, holding the subscriptions semaphore), at "send"  *)
(* (a sender in send(), holding the clients semaphore), at "remove" (in    *)
(* the sem_wait of sock_remove_worker), at "free" (unlinked, before its    *)
(* free calls), "done" (returned) or "cancelled".                          *)
(***************************************************************************)
Stopped(w) == workers[w].pc \in {"done", "cancelled"}

\* the semaphore a worker of a list takes around its callback or its send
held_sem(list) == IF list = "messengers" THEN "subs" ELSE "clients"

\* a thread reads or writes an object: recorded when the object is freed
touch(w, what, state) == IF state = "live" THEN uaf ELSE uaf \cup {[worker |-> w, object |-> what]}

\* free of an object
free(state) == IF state = "live" THEN "freed" ELSE "freed_twice"

\* sock_start_worker: the thread is created detached and linked at the end of
\* its list, under the semaphore of the list
sock_start_worker(list) ==
    /\ rel.pc = "idle"
    /\ Len(workers) < MaxWorkers
    /\ sem[list] = 1
    /\ workers' = Append(workers, [list |-> list, pc |-> "run", cancel |-> FALSE,
                                   linked |-> TRUE, rec |-> "live"])
    /\ UNCHANGED <<sockvars, reqvars, subvars, readers, peer_up, extvars, bindvars, rel, sem, mem, uaf>>

\* a worker uses its record and its buffer (the descriptor sets of a listener
\* or a dialer, the buffer a messenger decodes or a sender sends) and comes
\* to its next cancellation point
worker_run(w) ==
    /\ workers[w].pc = "run"
    /\ workers' = [workers EXCEPT ![w].pc = "wait"]
    /\ uaf' = touch(w, "record", workers[w].rec)
    /\ UNCHANGED <<sockvars, reqvars, subvars, readers, peer_up, extvars, bindvars, rel, sem, mem>>

\* select, read or usleep of a listener or a dialer returns: next round of the loop
worker_wake(w) ==
    /\ workers[w].pc = "wait"
    /\ workers[w].list \in {"listenners", "readers"}
    /\ ~workers[w].cancel
    /\ workers' = [workers EXCEPT ![w].pc = "run"]
    /\ UNCHANGED <<sockvars, reqvars, subvars, readers, peer_up, extvars, bindvars, rel, sem, mem, uaf>>

\* sem_wait of the subscriptions semaphore by a messenger, of the clients
\* semaphore by a sender
worker_sem_wait(w) ==
    /\ workers[w].pc = "wait"
    /\ workers[w].list \in {"messengers", "senders"}
    /\ ~workers[w].cancel
    /\ sem[held_sem(workers[w].list)] = 1
    /\ sem' = [sem EXCEPT ![held_sem(workers[w].list)] = 0]
    /\ workers' = [workers EXCEPT ![w].pc = IF workers[w].list = "messengers" THEN "cb" ELSE "send"]
    /\ uaf' = touch(w, "endpoint", IF workers[w].list = "messengers" THEN mem.axon ELSE mem.sock)
    /\ UNCHANGED <<sockvars, reqvars, subvars, readers, peer_up, extvars, bindvars, rel, mem>>

\* the subscription callbacks, or the send, return: sem_post, then
\* sock_remove_worker is entered
worker_sem_post(w) ==
    /\ workers[w].pc \in {"cb", "send"}
    /\ sem' = [sem EXCEPT ![held_sem(workers[w].list)] = 1]
    /\ workers' = [workers EXCEPT ![w].pc = "remove"]
    /\ uaf' = touch(w, "endpoint", IF workers[w].list = "messengers" THEN mem.axon ELSE mem.sock)
    /\ UNCHANGED <<sockvars, reqvars, subvars, readers, peer_up, extvars, bindvars, rel, mem>>

\* sock_remove_worker: sem_wait of the list, unlink, sem_post
worker_remove(w) ==
    /\ workers[w].pc = "remove"
    /\ ~workers[w].cancel
    /\ sem[workers[w].list] = 1
    /\ workers' = [workers EXCEPT ![w].pc = "free", ![w].linked = FALSE]
    /\ uaf' = touch(w, "transport", mem.sock)
    /\ UNCHANGED <<sockvars, reqvars, subvars, readers, peer_up, extvars, bindvars, rel, sem, mem>>

\* free(buffer), free(worker) at the end of the thread function
worker_free(w) ==
    /\ workers[w].pc = "free"
    /\ workers' = [workers EXCEPT ![w].pc = "done", ![w].rec = free(@)]
    /\ UNCHANGED <<sockvars, reqvars, subvars, readers, peer_up, extvars, bindvars, rel, sem, mem, uaf>>

\* a cancel request acts on a thread at a cancellation point: the thread ends
\* where it is, a semaphore it holds is not posted
worker_cancelled(w) ==
    /\ workers[w].cancel
    /\ workers[w].pc \in {"wait", "cb", "send", "remove"}
    /\ workers' = [workers EXCEPT ![w].pc = "cancelled"]
    /\ UNCHANGED <<sockvars, reqvars, subvars, readers, peer_up, extvars, bindvars, rel, sem, mem, uaf>>

\* the workers linked in list number l, in list order
Linked(l) == {w \in 1 .. Len(workers) : workers[w].list = Lists[l] /\ workers[w].linked}

\* list->first, worker->next: the first linked worker after w, 0 for NULL
next_worker(l, w) ==
    IF \E x \in Linked(l) : x > w THEN CHOOSE x \in Linked(l) : x > w /\ \A y \in Linked(l) : y > w => x <= y
    ELSE 0

\* axon_release calls sock_release
axon_release ==
    /\ rel.pc = "idle"
    /\ rel' = [pc |-> "sem_wait", list |-> 1, cur |-> 0]
    /\ UNCHANGED <<sockvars, reqvars, subvars, readers, peer_up, extvars, bindvars, workers, sem, mem, uaf>>

\* sem_wait of the semaphore of the next list; worker = list.first
release_sem_wait ==
    /\ rel.pc = "sem_wait"
    /\ sem[Lists[rel.list]] = 1
    /\ sem' = [sem EXCEPT ![Lists[rel.list]] = 0]
    /\ rel' = [rel EXCEPT !.cur = next_worker(rel.list, 0),
                          !.pc = IF next_worker(rel.list, 0) = 0 THEN "sem_post" ELSE "cancel"]
    /\ UNCHANGED <<sockvars, reqvars, subvars, readers, peer_up, extvars, bindvars, workers, mem, uaf>>

\* pthread_cancel(tmp->thread): the request is pending until the thread comes
\* to a cancellation point
release_cancel ==
    /\ rel.pc = "cancel"
    /\ workers' = [workers EXCEPT ![rel.cur].cancel = TRUE]
    /\ rel' = [rel EXCEPT !.pc = "join"]
    /\ UNCHANGED <<sockvars, reqvars, subvars, readers, peer_up, extvars, bindvars, sem, mem, uaf>>

\* pthread_join(tmp->thread, NULL) of a thread created detached: the call is
\* undefined; it fails at once (EINVAL) ...
release_join_fails ==
    /\ rel.pc = "join"
    /\ rel' = [rel EXCEPT !.pc = "free"]
    /\ UNCHANGED <<sockvars, reqvars, subvars, readers, peer_up, extvars, bindvars, workers, sem, mem, uaf>>

\* ... or returns once the thread has ended
release_join_waits ==
    /\ rel.pc = "join"
    /\ Stopped(rel.cur)
    /\ rel' = [rel EXCEPT !.pc = "free"]
    /\ UNCHANGED <<sockvars, reqvars, subvars, readers, peer_up, extvars, bindvars, workers, sem, mem, uaf>>

\* the descriptors of the worker are closed, free(buffer or hostname),
\* free(tmp); worker = worker->next
release_free ==
    /\ rel.pc = "free"
    /\ workers' = [workers EXCEPT ![rel.cur].rec = free(@)]
    /\ rel' = [rel EXCEPT !.cur = next_worker(rel.list, rel.cur),
                          !.pc = IF next_worker(rel.list, rel.cur) = 0 THEN "sem_post" ELSE "cancel"]
    /\ UNCHANGED <<sockvars, reqvars, subvars, readers, peer_up, extvars, bindvars, sem, mem, uaf>>

\* sem_post and sem_close of the list; after the last list sem_close of the
\* clients semaphore and free(sock)
release_sem_post ==
    /\ rel.pc = "sem_post"
    /\ sem' = [sem EXCEPT ![Lists[rel.list]] = 1]
    /\ IF rel.list < Len(Lists)
       THEN /\ rel' = [rel EXCEPT !.list = @ + 1, !.pc = "sem_wait"]
            /\ mem' = mem
       ELSE /\ rel' = [rel EXCEPT !.pc = "subs"]
            /\ mem' = [mem EXCEPT !.sock = free(@)]
    /\ UNCHANGED <<sockvars, reqvars, subvars, readers, peer_up, extvars, bindvars, workers, uaf>>

\* back in axon_release: sem_wait of the subscriptions semaphore, the
\* subscriptions are freed, sem_post, sem_close, free(axon)
release_subs ==
    /\ rel.pc = "subs"
    /\ sem["subs"] = 1
    /\ mem' = [mem EXCEPT !.subs = free(@), !.axon = free(@)]
    /\ rel' = [rel EXCEPT !.pc = "done"]
    /\ UNCHANGED <<sockvars, reqvars, subvars, readers, peer_up, extvars, bindvars, workers, sem, uaf>>

\* the steps of the thread that releases, the steps of worker w
release_step ==
    \/ release_sem_wait
    \/ release_cancel
    \/ release_join_fails
    \/ release_join_waits
    \/ release_free
    \/ release_sem_post
    \/ release_subs

worker_step(w) ==
    \/ worker_run(w)
    \/ worker_wake(w)
    \/ worker_sem_wait(w)
    \/ worker_sem_post(w)
    \/ worker_remove(w)
    \/ worker_free(w)
    \/ worker_cancelled(w)

(***************************************************************************)
(* sock_thread_listenner: a listener whose setup fails.                    *)
(***************************************************************************)
\* axon_on(axon, "error", fct, user)
axon_on_error ==
    /\ ~cb_error
    /\ cb_error' = TRUE
    /\ UNCHANGED <<sockvars, reqvars, subvars, readers, peer_up, extvars, relvars, l2_pc, l2_socket, error_log,
                   cb_bind, bind_log>>

\* axon_on(axon, "bind", fct, user)
axon_on_bind ==
    /\ ~cb_bind
    /\ cb_bind' = TRUE
    /\ UNCHANGED <<sockvars, reqvars, subvars, readers, peer_up, extvars, relvars, l2_pc, l2_socket,
                   cb_error, error_log, bind_log>>

\* sock_bind of a further port: a listener worker is started and linked
sock_bind_port ==
    /\ l2_pc = "none"
    /\ Len(error_log) < MaxBindFails
    /\ l2_pc' = "socket"
    /\ UNCHANGED <<sockvars, reqvars, subvars, readers, peer_up, extvars, relvars, l2_socket, cb_error, error_log,
                   cb_bind, bind_log>>

\* a listener that would report every failure of its setup as a bind failure
listenner_err_bind(call) == "sock: unable to bind socket"

\* the string a listener passes to the error callback when a call of its setup fails
listenner_err(call) ==
    CASE call = "socket" -> "sock: unable to create listenner socket"
      [] call = "setsockopt" -> "sock: unable to set socket option SO_REUSEADDR"
      [] call = "bind" -> "sock: unable to bind socket"
      [] call = "listen" -> "sock: unable to listen socket"

\* sock->cb.error.fct (axon_error_cb) is invoked: it calls the error callback
\* of the user if one is set
error_cb(call) ==
    Append(error_log, [call |-> call, err |-> IF cb_error THEN listenner_err(call) ELSE NULL])

\* socket() fails: error callback, END: the worker is unlinked and freed
listenner_socket_fail ==
    /\ l2_pc = "socket"
    /\ error_log' = error_cb("socket")
    /\ l2_pc' = "none"
    /\ UNCHANGED <<sockvars, reqvars, subvars, readers, peer_up, extvars, relvars, l2_socket, cb_error,
                   cb_bind, bind_log>>

\* socket() succeeds, FD_SET in the set of the worker
listenner_socket_ok ==
    /\ l2_pc = "socket"
    /\ FreeFds # {}
    /\ l2_socket' = NewFd
    /\ fdkind' = [fdkind EXCEPT ![NewFd] = "unconn"]
    /\ l2_pc' = "setup"
    /\ UNCHANGED <<type, fdpeer, l_pc, l_socket, l_fds, r_pc, r_socket, r_fds, r_retry,
                   clients_fds, clients_index, clients_sem, senders, messengers, wire,
                   npeer, nfail, nconnfail, churn, unicast_log, bcast_log, overlap,
                   reqvars, subvars, readers, peer_up, extvars, relvars, cb_error, error_log,
                   cb_bind, bind_log>>

\* the calls of the setup after socket()
SetupCalls == {"setsockopt", "bind", "listen"}

\* setsockopt, bind or listen fails: close of the socket, error callback,
\* END: the worker is unlinked and freed; when it is listen that fails, bind
\* has succeeded and the bind callback has been invoked
listenner_setup_fail(call) ==
    /\ l2_pc = "setup"
    /\ fdkind' = Close(fdkind, l2_socket)
    /\ bind_log' = IF call = "listen" THEN bind_cb("l2", Len(error_log) + 1) ELSE bind_log
    /\ error_log' = error_cb(call)
    /\ l2_socket' = NoFd
    /\ l2_pc' = "none"
    /\ UNCHANGED <<type, fdpeer, l_pc, l_socket, l_fds, r_pc, r_socket, r_fds, r_retry,
                   clients_fds, clients_index, clients_sem, senders, messengers, wire,
                   npeer, nfail, nconnfail, churn, unicast_log, bcast_log, overlap,
                   reqvars, subvars, readers, peer_up, extvars, relvars, cb_error, cb_bind>>

(***************************************************************************)
(* axon_message_cb on a buffer of coalesced frames: the loop                *)
(* while (0 < size) of a PULL endpoint whose message callback is set.  A    *)
(* frame is [ok, fields]: ok tells whether amp_decode accepts it.           *)
(***************************************************************************)
\* the frames a buffer may hold: two messages, a frame that decodes to a
\* message without field, and a frame amp_decode rejects
CbFrames ==
    { [ok |-> TRUE, fields |-> <<[type |-> "STRING", data |-> "a"]>>],
      [ok |-> TRUE, fields |-> <<[type |-> "STRING", data |-> "b"], [type |-> "JSON", data |-> 1]>>],
      [ok |-> TRUE, fields |-> <<>>],
      [ok |-> FALSE, fields |-> <<>>] }

\* the buffers one read() may return: MaxFrames frames at most
CbBuffers == UNION {[1 .. n -> CbFrames] : n \in 1 .. MaxFrames}

\* the worker calls axon_message_cb(sock, buffer, size, socket, user)
message_cb_enter(buffer) ==
    /\ cb_pc = "idle"
    /\ cb_pc' = "loop"
    /\ cb_data' = buffer /\ cb_buffer' = buffer /\ cb_log' = <<>>
    /\ UNCHANGED <<sockvars, reqvars, subvars, readers, peer_up, relvars, bindvars, rcvvars, dspvars, lstvars>>

\* a callback that would handle the first frame of the buffer only
message_cb_dispatch_once ==
    /\ cb_pc = "loop" /\ cb_buffer # <<>>
    /\ Head(cb_buffer).ok /\ Head(cb_buffer).fields # <<>>
    /\ cb_log' = Append(cb_log, Amp(Head(cb_buffer).fields))
    /\ cb_buffer' = Tail(cb_buffer)
    /\ cb_pc' = "returned"
    /\ UNCHANGED <<sockvars, reqvars, subvars, readers, peer_up, relvars, bindvars, rcvvars, dspvars, lstvars, cb_data>>

\* one turn of the loop: amp_decode takes the first frame off the buffer
\* (buffer and size are advanced), the message has a field, it is handed to
\* the message callback and released
message_cb_dispatch ==
    /\ cb_pc = "loop" /\ cb_buffer # <<>>
    /\ Head(cb_buffer).ok /\ Head(cb_buffer).fields # <<>>
    /\ cb_log' = Append(cb_log, Amp(Head(cb_buffer).fields))
    /\ cb_buffer' = Tail(cb_buffer)
    /\ UNCHANGED <<sockvars, reqvars, subvars, readers, peer_up, relvars, bindvars, rcvvars, dspvars, lstvars, cb_pc, cb_data>>

\* amp_decode fails: amp_release and return
message_cb_decode_fail ==
    /\ cb_pc = "loop" /\ cb_buffer # <<>>
    /\ ~Head(cb_buffer).ok
    /\ cb_pc' = "returned"
    /\ UNCHANGED <<sockvars, reqvars, subvars, readers, peer_up, relvars, bindvars, rcvvars, dspvars, lstvars,
                   cb_data, cb_buffer, cb_log>>

\* the decoded message has no field (first or last is NULL): amp_release and
\* return; amp_decode has advanced the buffer
message_cb_no_field ==
    /\ cb_pc = "loop" /\ cb_buffer # <<>>
    /\ Head(cb_buffer).ok /\ Head(cb_buffer).fields = <<>>
    /\ cb_pc' = "returned"
    /\ cb_buffer' = Tail(cb_buffer)
    /\ UNCHANGED <<sockvars, reqvars, subvars, readers, peer_up, relvars, bindvars, rcvvars, dspvars, lstvars,
                   cb_data, cb_log>>

\* size is 0: the loop ends and the callback returns
message_cb_exhausted ==
    /\ cb_pc = "loop" /\ cb_buffer = <<>>
    /\ cb_pc' = "returned"
    /\ UNCHANGED <<sockvars, reqvars, subvars, readers, peer_up, relvars, bindvars, rcvvars, dspvars, lstvars,
                   cb_data, cb_buffer, cb_log>>

(***************************************************************************)
(* The subscriptions semaphore: axon_subscribe and axon_unsubscribe called  *)
(* by a user thread, and the dispatch of axon_message_cb run by messenger   *)
(* threads of a SUB or PULL endpoint, step by step.                         *)
(***************************************************************************)
\* sem_wait(&axon->subs.sem) of axon_subscribe or axon_unsubscribe, after the
\* check of the endpoint's type
user_sem_wait(op) ==
    /\ may_subscribe(type)
    /\ usr.pc = "idle"
    /\ sem.subs = 1
    /\ sem' = [sem EXCEPT !.subs = 0]
    /\ usr' = [pc |-> "held", op |-> op]
    /\ UNCHANGED <<sockvars, reqvars, subvars, readers, peer_up, bindvars, rcvvars, cbvars, lstvars,
                   workers, rel, mem, uaf, dsp>>

\* the parse of axon_subscribe: the entry of that topic gets the callback and
\* the user data, or a new entry is linked after the last one
user_subscribe(topic, fct, user) ==
    /\ usr.pc = "held" /\ usr.op = "subscribe"
    /\ LET i == sub_find(topic) IN
        IF i # 0
        THEN subs' = [subs EXCEPT ![i].fct = fct, ![i].user = user]
        ELSE /\ Len(subs) < MaxSubs
             /\ subs' = Append(subs, [topic |-> topic, fct |-> fct, user |-> user])
    /\ usr' = [usr EXCEPT !.pc = "post"]
    /\ UNCHANGED <<sockvars, reqvars, cb_message, dispatched, last_call, readers, peer_up,
                   relvars, bindvars, rcvvars, cbvars, lstvars, dsp>>

\* the parse of axon_unsubscribe: the entry of that topic is unlinked and freed
user_unsubscribe(topic) ==
    /\ usr.pc = "held" /\ usr.op = "unsubscribe"
    /\ LET i == sub_find(topic) IN
        subs' = IF i # 0 THEN sub_unlink(subs, i) ELSE subs
    /\ usr' = [usr EXCEPT !.pc = "post"]
    /\ UNCHANGED <<sockvars, reqvars, cb_message, dispatched, last_call, readers, peer_up,
                   relvars, bindvars, rcvvars, cbvars, lstvars, dsp>>

\* LEAVE: sem_post(&axon->subs.sem) and return
user_sem_post ==
    /\ usr.pc = "post"
    /\ sem' = [sem EXCEPT !.subs = 1]
    /\ usr' = [pc |-> "idle", op |-> "none"]
    /\ UNCHANGED <<sockvars, reqvars, subvars, readers, peer_up, bindvars, rcvvars, cbvars, lstvars,
                   workers, rel, mem, uaf, dsp>>

\* a dispatch that would start to parse the subscriptions without the semaphore
dispatch_no_sem_wait(m) ==
    /\ type \in {"sub", "pull"}
    /\ dsp[m].pc = "idle"
    /\ dsp' = [dsp EXCEPT ![m] = [pc |-> "first", curr |-> 0, seen |-> subs]]
    /\ UNCHANGED <<sockvars, reqvars, subvars, readers, peer_up, relvars, bindvars, rcvvars, cbvars, lstvars, usr>>

\* a messenger has decoded a message and called the message callback:
\* sem_wait(&axon->subs.sem)
dispatch_sem_wait(m) ==
    /\ type \in {"sub", "pull"}
    /\ dsp[m].pc = "idle"
    /\ sem.subs = 1
    /\ sem' = [sem EXCEPT !.subs = 0]
    /\ dsp' = [dsp EXCEPT ![m] = [pc |-> "first", curr |-> 0, seen |-> subs]]
    /\ UNCHANGED <<sockvars, reqvars, subvars, readers, peer_up, bindvars, rcvvars, cbvars, lstvars,
                   workers, rel, mem, uaf, usr>>

\* NULL != axon->subs.first and the first field is a string: the topic is
\* extracted and curr_sub = axon->subs.first; else straight to sem_post
dispatch_first(m) ==
    /\ dsp[m].pc = "first"
    /\ \E is_string \in BOOLEAN :
        dsp' = [dsp EXCEPT ![m] =
                  IF subs # <<>> /\ is_string
                  THEN [@ EXCEPT !.pc = "loop", !.curr = 1]
                  ELSE [@ EXCEPT !.pc = "post"]]
    /\ UNCHANGED <<sockvars, reqvars, subvars, readers, peer_up, relvars, bindvars, rcvvars, cbvars, lstvars, usr>>

\* one turn of while (NULL != curr_sub): regcomp, regexec, the callback of
\* the entry if it matches, curr_sub = curr_sub->next
dispatch_examine(m) ==
    /\ dsp[m].pc = "loop"
    /\ dsp[m].curr <= Len(subs)
    /\ dsp' = [dsp EXCEPT ![m].curr = @ + 1]
    /\ UNCHANGED <<sockvars, reqvars, subvars, readers, peer_up, relvars, bindvars, rcvvars, cbvars, lstvars, usr>>

\* curr_sub is NULL: the topic field is freed
dispatch_loop_end(m) ==
    /\ dsp[m].pc = "loop"
    /\ dsp[m].curr > Len(subs)
    /\ dsp' = [dsp EXCEPT ![m].pc = "post"]
    /\ UNCHANGED <<sockvars, reqvars, subvars, readers, peer_up, relvars, bindvars, rcvvars, cbvars, lstvars, usr>>

\* sem_post(&axon->subs.sem), amp_release: the dispatch of the message is over
dispatch_sem_post(m) ==
    /\ dsp[m].pc = "post"
    /\ sem' = [sem EXCEPT !.subs = 1]
    /\ dsp' = [dsp EXCEPT ![m] = [pc |-> "idle", curr |-> 0, seen |-> <<>>]]
    /\ UNCHANGED <<sockvars, reqvars, subvars, readers, peer_up, bindvars, rcvvars, cbvars, lstvars,
                   workers, rel, mem, uaf, usr>>

(***************************************************************************)
(* sock_start_worker and sock_remove_worker on the list of senders, by     *)
(* pointers.  Several threads start workers (each its own), and every      *)
(* worker removes itself at the end of its thread function.                *)
(***************************************************************************)
\* the condition of the steps below: everything but the list, its workers and its semaphore
ListFrame ==
    UNCHANGED <<sockvars, reqvars, subvars, readers, peer_up, bindvars, rcvvars, cbvars, dspvars,
                workers, rel, mem, uaf>>

\* a sock_start_worker that would not wait for the semaphore of the list
start_no_sem_wait(w) ==
    /\ node[w].st = "idle"
    /\ node' = [node EXCEPT ![w].st = "create"]
    /\ UNCHANGED <<chain, sem>>
    /\ ListFrame

\* sock_start_worker: sem_wait(&list->sem)
start_sem_wait(w) ==
    /\ node[w].st = "idle"
    /\ sem.senders = 1
    /\ sem' = [sem EXCEPT !.senders = 0]
    /\ node' = [node EXCEPT ![w].st = "create"]
    /\ UNCHANGED chain
    /\ ListFrame

\* pthread_create succeeds: the thread of the worker runs from now on
start_create_ok(w) ==
    /\ node[w].st = "create"
    /\ node' = [node EXCEPT ![w].st = "insert", ![w].th = "run"]
    /\ UNCHANGED <<chain, sem>>
    /\ ListFrame

\* pthread_create fails: sem_post and return -1
start_create_fail(w) ==
    /\ node[w].st = "create"
    /\ sem' = [sem EXCEPT !.senders = 1]
    /\ node' = [node EXCEPT ![w].st = "failed"]
    /\ UNCHANGED chain
    /\ ListFrame

\* the worker is added to the daisy chain: first = last = worker when the list
\* is empty, else worker->prev = list->last, list->last->next = worker,
\* list->last = worker
start_insert(w) ==
    /\ node[w].st = "insert"
    /\ IF chain.last = 0
       THEN /\ chain' = [first |-> w, last |-> w]
            /\ node' = [node EXCEPT ![w].st = "post"]
       ELSE /\ chain' = [chain EXCEPT !.last = w]
            /\ node' = [node EXCEPT ![w].st = "post", ![w].prev = chain.last,
                                    ![chain.last].next = w]
    /\ UNCHANGED sem
    /\ ListFrame

\* sem_post(&list->sem) and return 0
start_sem_post(w) ==
    /\ node[w].st = "post"
    /\ sem' = [sem EXCEPT !.senders = 1]
    /\ node' = [node EXCEPT ![w].st = "started"]
    /\ UNCHANGED chain
    /\ ListFrame

\* the thread function of the worker has done its work and calls sock_remove_worker
thread_end(w) ==
    /\ node[w].th = "run"
    /\ node' = [node EXCEPT ![w].th = "remove"]
    /\ UNCHANGED <<chain, sem>>
    /\ ListFrame

\* sock_remove_worker: sem_wait(&list->sem)
remove_sem_wait(w) ==
    /\ node[w].th = "remove"
    /\ sem.senders = 1
    /\ sem' = [sem EXCEPT !.senders = 0]
    /\ node' = [node EXCEPT ![w].th = "unlink"]
    /\ UNCHANGED chain
    /\ ListFrame

\* the worker is removed from the daisy chain: prev->next or list->first gets
\* worker->next, next->prev or list->last gets worker->prev
remove_unlink(w) ==
    /\ node[w].th = "unlink"
    /\ LET p == node[w].prev
           n == node[w].next
           node1 == IF p # 0 THEN [node EXCEPT ![p].next = n] ELSE node
           node2 == IF n # 0 THEN [node1 EXCEPT ![n].prev = p] ELSE node1
       IN  /\ node' = [node2 EXCEPT ![w].th = "post"]
           /\ chain' = [first |-> IF p # 0 THEN chain.first ELSE n,
                        last |-> IF n # 0 THEN chain.last ELSE p]
    /\ UNCHANGED sem
    /\ ListFrame

\* sem_post(&list->sem), return; the thread function frees the worker
remove_sem_post(w) ==
    /\ node[w].th = "post"
    /\ sem' = [sem EXCEPT !.senders = 1]
    /\ node' = [node EXCEPT ![w].th = "gone"]
    /\ UNCHANGED chain
    /\ ListFrame

(***************************************************************************)
(* The transport of one endpoint, by role.                                 *)
(*   SpecPush  a PUSH endpoint that is bound: peers connect and leave,     *)
(*             the user sends, round-robin senders run.                    *)
(*   SpecPub   a PUB endpoint that is bound: broadcast senders run.        *)
(*   SpecRep   a REP endpoint that is bound and connected: requests are    *)
(*             read by the listener and by the dialer, messengers run the  *)
(*             callback and unicast senders carry the replies.             *)
(***************************************************************************)
InitPush == type = "push" /\ SockInit /\ ReqInit /\ SubInit /\ CtlInit
InitPub == type = "pub" /\ SockInit /\ ReqInit /\ SubInit /\ CtlInit
InitRep == type = "rep" /\ SockInit /\ ReqInit /\ SubInit /\ CtlInit

ListenerAccepts ==
    \/ sock_bind
    \/ listenner_setup
    \/ listenner_accept
    \/ \E index \in FDs : listenner_close(index)

NextPush ==
    \/ ListenerAccepts
    \/ axon_send
    \/ \E w \in 1 .. MaxSenders :
        \/ sender_rr_search(w)
        \/ sender_rr_send_ok(w)
        \/ sender_rr_send_fail(w)
        \/ sender_rr_fail(w)
        \/ sender_rr_inc(w)
        \/ sender_end(w)

NextPub ==
    \/ ListenerAccepts
    \/ axon_send
    \/ axon_on_error
    \/ \E w \in 1 .. MaxSenders :
        \/ sender_bc_wait(w)
        \/ sender_bc_skip(w)
        \/ sender_bc_send_ok(w)
        \/ sender_bc_send_fail(w)
        \/ sender_bc_post(w)
        \/ sender_end(w)

NextRep ==
    \/ ListenerAccepts
    \/ \E index \in FDs : listenner_read(index)
    \/ \E hostname \in Hosts, port \in Ports : sock_connect(hostname, port)
    \/ reader_connect_fail
    \/ reader_socket_fail
    \/ reader_connect_ok
    \/ reader_read
    \/ reader_close
    \/ \E m \in 1 .. MaxMessengers :
        \/ messenger_reply(m)
        \/ messenger_noreply(m)
    \/ \E w \in 1 .. MaxSenders :
        \/ sender_uni_send_ok(w)
        \/ sender_uni_send_fail(w)
        \/ sender_uni_fail(w)
        \/ sender_end(w)

\* SpecReq: a REQ endpoint whose user threads send, the REP endpoint that
\* answers, and the REQ endpoint's receive path
InitReq == type = "req" /\ SockInit /\ ReqInit /\ SubInit /\ CtlInit

NextReq ==
    \/ \E r \in 1 .. MaxReq :
        \/ rq_id(r)
        \/ rq_inc(r)
        \/ rq_mq_open(r)
        \/ rq_sock_send(r)
        \/ rq_recv_ok(r)
        \/ rq_recv_timeout(r)
        \/ rq_cleanup(r)
    \/ Tick
    \/ \E frame \in net_req : rep_message_cb(frame)
    \/ \E frame \in net_rep :
        \/ rx_open_ok(frame)
        \/ rx_open_fail(frame)
    \/ \E x \in 1 .. MaxReq : rx_mq_send(x)

SpecPush == InitPush /\ [][NextPush]_vars
SpecPub == InitPub /\ [][NextPub]_vars
SpecRep == InitRep /\ [][NextRep]_vars
SpecReq == InitReq /\ [][NextReq]_vars

\* SpecSub: a SUB or PULL endpoint whose user registers the message callback,
\* subscribes and unsubscribes, and whose messengers dispatch received messages
InitSub == type \in {"sub", "pull"} /\ SockInit /\ ReqInit /\ SubInit /\ CtlInit

NextSub ==
    \/ \E fct \in Fcts \cup {NULL} : axon_on_message(fct)
    \/ \E topic \in Patterns, reg \in Registrations : axon_subscribe(topic, reg.fct, reg.user)
    \/ \E topic \in Patterns : axon_unsubscribe(topic)
    \/ \E msg \in Messages : sub_message_cb(msg)

SpecSub == InitSub /\ [][NextSub]_vars

\* SpecRole: an endpoint of any type whose user subscribes, unsubscribes,
\* sends and builds replies
Types == {"pub", "sub", "push", "pull", "req", "rep"}

InitRole == type \in Types /\ SockInit /\ ReqInit /\ SubInit /\ CtlInit

NextRole ==
    \/ \E topic \in Patterns, reg \in Registrations : axon_subscribe(topic, reg.fct, reg.user)
    \/ \E topic \in Patterns : axon_unsubscribe(topic)
    \/ axon_send
    \/ axon_send_refused
    \/ \E r \in 1 .. MaxReq :
        \/ rq_id(r)
        \/ rq_inc(r)
        \/ rq_mq_open(r)
        \/ rq_sock_send(r)
    \/ \E p \in Payloads : axon_reply(p)

SpecRole == InitRole /\ [][NextRole]_vars

\* SpecDial: the dialer of an endpoint and its remote peer, which starts and
\* stops; the dialer thread keeps running (weak fairness of its steps)
InitDial == type = "sub" /\ SockInit /\ ReqInit /\ SubInit /\ CtlInit

NextDial ==
    \/ \E hostname \in Hosts, port \in Ports : sock_connect(hostname, port)
    \/ dial_connect_fail
    \/ dial_connect_ok
    \/ reader_socket_fail
    \/ reader_close
    \/ peer_start
    \/ peer_stop

SpecDial ==
    /\ InitDial /\ [][NextDial]_vars
    /\ WF_vars(dial_connect_fail) /\ WF_vars(dial_connect_ok) /\ WF_vars(reader_socket_fail)

\* SpecRelease: a SUB endpoint starts workers of the four kinds, the workers
\* run, and the user releases the endpoint at any moment; every thread keeps
\* being scheduled (weak fairness of the releasing thread and of each worker)
InitRelease == type = "sub" /\ SockInit /\ ReqInit /\ SubInit /\ CtlInit

NextRelease ==
    \/ \E l \in 1 .. Len(Lists) : sock_start_worker(Lists[l])
    \/ axon_release
    \/ release_sem_wait
    \/ release_cancel
    \/ release_join_fails
    \/ release_join_waits
    \/ release_free
    \/ release_sem_post
    \/ release_subs
    \/ \E w \in 1 .. MaxWorkers :
        /\ w <= Len(workers)
        /\ \/ worker_run(w)
           \/ worker_wake(w)
           \/ worker_sem_wait(w)
           \/ worker_sem_post(w)
           \/ worker_remove(w)
           \/ worker_free(w)
           \/ worker_cancelled(w)

SpecRelease ==
    /\ InitRelease /\ [][NextRelease]_vars
    /\ WF_vars(release_step)
    /\ \A w \in 1 .. MaxWorkers : WF_vars(w <= Len(workers) /\ worker_step(w))

\* SpecBind: an endpoint with a listener that accepts connections, a dialer,
\* and further listeners whose setup fails
InitBind == type = "rep" /\ SockInit /\ ReqInit /\ SubInit /\ CtlInit

NextBind ==
    \/ ListenerAccepts
    \/ \E hostname \in Hosts, port \in Ports : sock_connect(hostname, port)
    \/ reader_connect_fail
    \/ reader_socket_fail
    \/ reader_connect_ok
    \/ reader_close
    \/ axon_on_error
    \/ sock_bind_port
    \/ listenner_socket_fail
    \/ listenner_socket_ok
    \/ \E call \in SetupCalls : listenner_setup_fail(call)

SpecBind == InitBind /\ [][NextBind]_vars

\* SpecBindCb: an endpoint whose user sets the bind and the error callback
\* and binds: one listener comes to its loop, the setup of further ones fails
InitBindCb == type = "rep" /\ SockInit /\ ReqInit /\ SubInit /\ CtlInit

NextBindCb ==
    \/ ListenerAccepts
    \/ axon_on_bind
    \/ axon_on_error
    \/ sock_bind_port
    \/ listenner_socket_fail
    \/ listenner_socket_ok
    \/ \E call \in SetupCalls : listenner_setup_fail(call)

SpecBindCb == InitBindCb /\ [][NextBindCb]_vars

\* SpecDecode: a PULL endpoint whose listener accepts connections and reads
\* buffers, some of which do not decode
InitDecode == type = "pull" /\ SockInit /\ ReqInit /\ SubInit /\ CtlInit

NextDecode ==
    \/ ListenerAccepts
    \/ \E index \in FDs : listenner_read(index)
    \/ \E m \in 1 .. MaxMessengers :
        \/ messenger_noreply(m)
        \/ messenger_decode_fail(m)

SpecDecode == InitDecode /\ [][NextDecode]_vars

\* SpecDup: one send on a REQ endpoint, and a REP peer that may send its
\* reply twice
InitDup == InitReq

NextDup ==
    \/ rq_id(1)
    \/ rq_inc(1)
    \/ rq_mq_open(1)
    \/ rq_sock_send(1)
    \/ rq_recv_ok(1)
    \/ rq_recv_timeout(1)
    \/ rq_cleanup(1)
    \/ Tick
    \/ \E frame \in net_req : rep_message_cb(frame)
    \/ \E frame \in net_rep : peer_resend(frame)
    \/ \E frame \in net_rep \cup net_dup :
        \/ rx_open_ok(frame)
        \/ rx_open_fail(frame)
    \/ \E x \in 1 .. MaxReq : rx_mq_send(x)

SpecDup == InitDup /\ [][NextDup]_vars

\* SpecExit: SpecReq with the exits of axon_vsend on a failure to encode, to
\* create the queue or to start the sender
InitExit == InitReq

NextExit ==
    \/ NextReq
    \/ \E r \in 1 .. MaxReq :
        \/ rq_encode_fail(r)
        \/ rq_mq_open_fail(r)
        \/ rq_sock_send_fail(r)

SpecExit == InitExit /\ [][NextExit]_vars

\* SpecCoalesce: one call of axon_message_cb of a PULL endpoint on a buffer of
\* coalesced frames
InitCoalesce == type = "pull" /\ SockInit /\ ReqInit /\ SubInit /\ CtlInit

NextCoalesce ==
    \/ \E buffer \in CbBuffers : message_cb_enter(buffer)
    \/ message_cb_dispatch
    \/ message_cb_decode_fail
    \/ message_cb_no_field
    \/ message_cb_exhausted

SpecCoalesce == InitCoalesce /\ [][NextCoalesce]_vars

\* SpecDispatch: a SUB or PULL endpoint whose messengers dispatch messages
\* while a user thread subscribes and unsubscribes
InitDispatch == InitSub

NextDispatch ==
    \/ \E op \in {"subscribe", "unsubscribe"} : user_sem_wait(op)
    \/ \E topic \in Patterns, reg \in Registrations : user_subscribe(topic, reg.fct, reg.user)
    \/ \E topic \in Patterns : user_unsubscribe(topic)
    \/ user_sem_post
    \/ \E m \in 1 .. MaxMessengers :
        \/ dispatch_sem_wait(m)
        \/ dispatch_first(m)
        \/ dispatch_examine(m)
        \/ dispatch_loop_end(m)
        \/ dispatch_sem_post(m)

SpecDispatch == InitDispatch /\ [][NextDispatch]_vars

\* SpecList: the workers of one list are started and remove themselves
InitList == InitPush

NextList ==
    \E w \in 1 .. MaxWorkers :
        \/ start_sem_wait(w)
        \/ start_create_ok(w)
        \/ start_create_fail(w)
        \/ start_insert(w)
        \/ start_sem_post(w)
        \/ thread_end(w)
        \/ remove_sem_wait(w)
        \/ remove_unlink(w)
        \/ remove_sem_post(w)

SpecList == InitList /\ [][NextList]_vars

(***************************************************************************)
(* Claims on the transport.                                                *)
(***************************************************************************)
AllSendersDone == \A w \in 1 .. Len(senders) : senders[w].pc = "done"

\* the round-robin senders that wrote or tried to write (none gave up)
NoneGaveUp == \A w \in 1 .. Len(senders) : senders[w].pick # NoFd

\* C1: round-robin fairness. On a PUSH endpoint with n >= 2 peers that stay in
\* the connection set and no send failure, once k*n sends have completed (here
\* even one after the other, each send completed before the next is issued),
\* every peer has received exactly k messages.
C1_RoundRobinFairness ==
    LET n == Cardinality(clients_fds) IN
    ( /\ type = "push"
      /\ n >= 2
      /\ Len(senders) > 0 /\ Len(senders) % n = 0
      /\ AllSendersDone /\ NoneGaveUp
      /\ ~churn /\ nfail = 0 /\ ~overlap )
    => \A f \in clients_fds : Len(wire[fdpeer[f]]) = Len(senders) \div n

\* C2: broadcast delivery. While a broadcast holds the semaphore, the sockets
\* of the set it started with that it has passed are each either written or
\* failed, the failed ones (and only they) were removed from the set and are
\* closed; when the loop is over every socket of the starting set was written
\* unless its own write failed.
C2_BroadcastDelivery ==
    \A w \in 1 .. Len(senders) :
        LET b == bcast_log[w] IN
        /\ senders[w].pc = "bc_loop" =>
            /\ clients_sem = w
            /\ b.wrote \cup b.failed = {f \in b.start : f < senders[w].index}
            /\ b.wrote \cap b.failed = {}
            /\ clients_fds = b.start \ b.failed
            /\ \A f \in b.failed : fdkind[f] = "closed"
            /\ \A f \in b.wrote : w \in {wire[fdpeer[f]][i] : i \in 1 .. Len(wire[fdpeer[f]])}
        /\ (senders[w].socket = SOCK_SEND_BROADCAST /\ senders[w].pc \in {"end", "done"}) =>
            /\ b.wrote \cup b.failed = b.start
            /\ b.wrote \cap b.failed = {}

\* a broadcast ended in which one write failed and a later one was made
C2_Witness ==
    \E w \in 1 .. Len(senders) :
        /\ senders[w].pc = "done"
        /\ \E f \in bcast_log[w].failed : \E g \in bcast_log[w].wrote : f < g

\* C5: a REP endpoint writes each reply to the descriptor the request was read
\* from, for a socket accepted by the listener and for the dialer's socket.
C5_ReplyOnRequestSocket ==
    \A e \in unicast_log : e.to = e.from

(***************************************************************************)
(* Claims on the request / reply engine.                                   *)
(***************************************************************************)
\* the sends that returned success, and those that are about to
Completed(r) ==
    \/ requesters[r].pc = "ok_close"
    \/ requesters[r].pc = "done" /\ requesters[r].ret = 0

\* C3: request correlation. A waiting send is completed only by a reply whose
\* trailing id equals the id appended to its own request.
C3_RequestCorrelation ==
    \A r \in 1 .. MaxReq : Completed(r) => requesters[r].tmp_id = requesters[r].id

\* two sends with different ids were outstanding, one is completed by its
\* reply while the other still waits
C3_Witness ==
    \E r1, r2 \in 1 .. MaxReq :
        /\ Completed(r1)
        /\ requesters[r2].pc = "recv"
        /\ requesters[r1].id # requesters[r2].id
        /\ \E f \in net_rep : f.req = r2

\* C4: round-trip content. When the REP callback returned reply R for the
\* request of a send and the reply arrived before the timeout, the send
\* returns 0 and its response holds exactly the fields of R, in order.
C4_RoundTripContent ==
    \A r \in 1 .. MaxReq :
        ( /\ requesters[r].pc = "done"
          /\ replied[r] \in Replies(r)
          /\ requesters[r].in_time )
        => /\ requesters[r].ret = 0
           /\ requesters[r].resp.fields = replied[r].fields
           /\ requesters[r].resp.count = Len(replied[r].fields)

\* C6: timeout. A send with timeout T that returns failure for want of a
\* reply has waited T milliseconds.
C6_TimeoutWaitsT ==
    \A r \in 1 .. MaxReq :
        requesters[r].waited # -1 => requesters[r].waited >= requesters[r].timeout

\* the sends that hold queue q open and will still call mq_timedreceive
Readers(q) == {r \in 1 .. MaxReq : requesters[r].mq = q /\ requesters[r].pc \in {"send", "recv"}}

\* C7: timeout cleanliness. A decoded reply that the receive path has posted
\* is in a queue that some send will still read: none is left in a queue
\* nobody reads.
C7_NoReplyLeftUnreleased ==
    \A x \in 1 .. Len(rx) : rx[x].amp_state = "queued" => Readers(rx[x].mq) # {}

(***************************************************************************)
(* Claims on the dispatch to subscriptions.                                *)
(***************************************************************************)
\* the pairs (pattern, topic) of Patterns and Topics in which the topic
\* matches the pattern as an extended POSIX regular expression:
\*   top.*   matches topic1 and atop      topic1  matches topic1
\*   opic    matches topic1               ^top    matches topic1
\*   (       is not a regular expression
EreMatches ==
    {<<<<"t", "o", "p", ".", "*">>, <<"t", "o", "p", "i", "c", "1">>>>,
     <<<<"t", "o", "p", ".", "*">>, <<"a", "t", "o", "p">>>>,
     <<<<"t", "o", "p", "i", "c", "1">>, <<"t", "o", "p", "i", "c", "1">>>>,
     <<<<"o", "p", "i", "c">>, <<"t", "o", "p", "i", "c", "1">>>>,
     <<<<"^", "t", "o", "p">>, <<"t", "o", "p", "i", "c", "1">>>>}

\* a message was dispatched whose first field is a STRING
TopicDispatched ==
    /\ dispatched # NoDispatch
    /\ dispatched.msg.fields[1].type = "STRING"

\* the invocations of the callback of subscription i in the last dispatch
CallsOf(i) == {k \in 1 .. Len(dispatched.calls) : dispatched.calls[k].sub = i}

\* C8: subscription match. For a received message whose first field is the
\* STRING topic t, the callback of each subscription is invoked once if t
\* matches its pattern as an extended POSIX regular expression, and not at all
\* otherwise.
C8_SubscriptionMatch ==
    TopicDispatched =>
        \A i \in 1 .. Len(subs) :
            /\ subs[i].fct # NULL =>
                Cardinality(CallsOf(i)) =
                    IF <<subs[i].topic, dispatched.msg.fields[1].data>> \in EreMatches THEN 1 ELSE 0
            /\ \A k \in CallsOf(i) : dispatched.calls[k].fct = subs[i].fct

\* subscriptions top.* and topic1 with two callbacks, a message on topic1:
\* both callbacks invoked, once each
C8_Witness ==
    /\ TopicDispatched
    /\ dispatched.msg.fields[1].data = <<"t", "o", "p", "i", "c", "1">>
    /\ Len(subs) = 2
    /\ subs[1] = [topic |-> <<"t", "o", "p", ".", "*">>, fct |-> "f", user |-> "u"]
    /\ subs[2] = [topic |-> <<"t", "o", "p", "i", "c", "1">>, fct |-> "g", user |-> "v"]
    /\ Len(dispatched.calls) = 2
    /\ dispatched.calls[1].fct = "f" /\ dispatched.calls[2].fct = "g"

\* C9: a subscription callback receives the topic string, and the message
\* without its first field: the other fields in their order, and a count one
\* less than received.
C9_TopicStripped ==
    \A k \in 1 .. Len(dispatched.calls) :
        /\ dispatched.calls[k].topic = dispatched.msg.fields[1].data
        /\ dispatched.calls[k].amp.fields = Tail(dispatched.msg.fields)
        /\ dispatched.calls[k].amp.count = dispatched.msg.count - 1
        /\ dispatched.calls[k].amp.count = Len(dispatched.calls[k].amp.fields)

\* a callback was invoked for a message of three fields
C9_Witness ==
    /\ Len(dispatched.calls) >= 1
    /\ dispatched.msg.count = 3
    /\ dispatched.msg.fields[2] # dispatched.msg.fields[3]

\* C10: for a received message whose first field is not a STRING no
\* subscription callback is invoked and the message is left as received, and
\* the message callback, if registered, is invoked once with it.
C10_NonStringFirstField ==
    (dispatched # NoDispatch /\ dispatched.msg.fields[1].type # "STRING") =>
        /\ dispatched.calls = <<>>
        /\ dispatched.amp = dispatched.msg
        /\ cb_message # NULL =>
            dispatched.generic = <<[fct |-> cb_message, amp |-> dispatched.msg]>>

\* a PULL endpoint with a subscription that has a callback and a message
\* callback received a message whose first field is a BLOB
C10_Witness ==
    /\ type = "pull"
    /\ dispatched # NoDispatch
    /\ dispatched.msg.fields[1].type = "BLOB"
    /\ \E i \in 1 .. Len(subs) : subs[i].fct # NULL /\ regcomp(subs[i].topic)
    /\ Len(dispatched.generic) = 1

(***************************************************************************)
(* Claims on the subscription table and on the roles.                      *)
(***************************************************************************)
\* the entries of a table whose pattern is the topic
EntriesOf(list, topic) == {i \in 1 .. Len(list) : list[i].topic = topic}

\* a subscription table without entry i, written out
Without(list, i) == [k \in 1 .. Len(list) - 1 |-> IF k < i THEN list[k] ELSE list[k + 1]]

\* C11: subscription table key uniqueness. The table holds at most one entry
\* per pattern; subscribing a pattern that is in the table replaces the
\* callback and user data of its entry in place, length and order unchanged,
\* and subscribing a new pattern appends an entry at the end.
C11_TableKeyUniqueness ==
    /\ \A i, j \in 1 .. Len(subs) : subs[i].topic = subs[j].topic => i = j
    /\ (last_call.op = "subscribe" /\ last_call.ret = 0) =>
        LET entry == [topic |-> last_call.topic, fct |-> last_call.fct, user |-> last_call.user]
            old == EntriesOf(last_call.before, last_call.topic)
        IN  IF old # {}
            THEN /\ Len(subs) = Len(last_call.before)
                 /\ \A k \in 1 .. Len(subs) :
                        subs[k] = IF k \in old THEN entry ELSE last_call.before[k]
            ELSE /\ Len(subs) = Len(last_call.before) + 1
                 /\ subs[Len(subs)] = entry
                 /\ \A k \in 1 .. Len(last_call.before) : subs[k] = last_call.before[k]

\* the first of two entries was subscribed again with another callback and
\* other user data
C11_Witness ==
    /\ last_call.op = "subscribe" /\ last_call.ret = 0
    /\ Len(last_call.before) = 2
    /\ last_call.before[1].topic = last_call.topic
    /\ last_call.before[1].fct = "f" /\ last_call.fct = "g"
    /\ last_call.before[1].user = "u" /\ last_call.user = "v"
    /\ Len(subs) = 2

C13_WrongRoleFails ==
    /\ type \notin {"sub", "pull"} =>
        /\ subs = <<>>
        /\ last_call.op = "subscribe" => last_call.ret = -1
    /\ type \in {"sub", "pull", "rep"} =>
        /\ senders = <<>> /\ net_req = {} /\ queues = <<>> /\ msg_id = 0
        /\ \A r \in 1 .. MaxReq : requesters[r].pc = "idle"
        /\ last_call.op = "send" => last_call.ret = -1
    /\ (type # "rep" /\ last_call.op = "reply") => last_call.msg = NoReply

\* send was called on a PULL endpoint that has a subscription
C13_Witness ==
    /\ type = "pull"
    /\ subs # <<>>
    /\ last_call.op = "send" /\ last_call.ret = -1

\* C14: per-peer send order. The senders are numbered in the order of the
\* sends (each send has returned before the next is called): what a peer
\* receives, it receives in the order of the sends.
C14_PerPeerSendOrder ==
    \A p \in DOMAIN wire :
        \A i, j \in 1 .. Len(wire[p]) : i < j => wire[p][i] < wire[p][j]

\* C15: isConnected(host, port) is true iff connect was called with that host
\* and that port, from the return of connect on and whether the dialer's
\* connection is up, is being retried or was lost; it is false for every
\* other pair.
C15_IsConnected ==
    /\ r_pc = "none" => \A h \in Hosts, p \in Ports : ~sock_is_connected(h, p)
    /\ r_pc # "none" =>
        /\ Len(readers) = 1
        /\ \A h \in Hosts, p \in Ports :
            sock_is_connected(h, p) <=> (h = readers[1].hostname /\ p = readers[1].port)

\* the dialer has lost a connection and is connecting again: isConnected is
\* true for the pair of the connect, false for the same host with another port
C15_Witness ==
    /\ r_pc = "connect" /\ r_fds = {}
    /\ \E f \in FDs : fdpeer[f] = 0 /\ npeer >= 1 /\ r_socket = f
    /\ sock_is_connected(readers[1].hostname, readers[1].port)
    /\ \E p \in Ports : ~sock_is_connected(readers[1].hostname, p)

\* C16: reconnect liveness. Whenever the dialer is connecting (for the first
\* time, after failed attempts or after a disconnect) while the peer accepts
\* connections, the dialer eventually has a connected socket in the connection
\* set, unless the peer stops first.
C16_ReconnectLiveness ==
    (peer_up /\ r_pc = "connect" /\ npeer < MaxPeers)
        ~> ((r_pc = "connected" /\ r_socket \in clients_fds) \/ ~peer_up)

\* C17: on a REP endpoint a step puts at most one frame on a socket; a frame is
\* sent only by the step in which the callback returned a reply for the
\* request, and it carries the fields of the reply followed by the id field of
\* the request; when the callback returned no reply, or none is registered,
\* the step sends nothing.
C17_ReplyOnlyWhenReturned ==
    [][ /\ Cardinality(net_rep' \ net_rep) <= 1
        /\ \A f \in net_rep' \ net_rep :
             \E q \in net_req \ net_req' :
                /\ q.req = f.req
                /\ replied[f.req] = NoMsg
                /\ replied'[f.req] \in Replies(f.req)
                /\ f.fields = replied'[f.req].fields \o <<Last(q.fields)>>
        /\ \A r \in 1 .. MaxReq :
             (replied'[r] # replied[r] /\ replied'[r] \in {NoReply, NoCallback})
                => net_rep' = net_rep ]_vars

\* one request was answered with a reply of two fields, whose frame is on the
\* way, another was left without a reply by the callback and has no frame
C17_Witness ==
    \E r1, r2 \in 1 .. MaxReq :
        /\ replied[r1] \in Replies(r1) /\ Len(replied[r1].fields) = 2
        /\ \E f \in net_rep : f.req = r1 /\ Len(f.fields) = 3
        /\ replied[r2] \in {NoReply, NoCallback}
        /\ \A f \in net_rep : f.req # r2
        /\ \A x \in 1 .. Len(rx) : rx[x].req # r2

(***************************************************************************)
(* Claims on the release of the endpoint.                                  *)
(***************************************************************************)
\* C18: release safety. Release frees the record and the buffer of a worker
\* only when the thread of the worker has stopped; no worker thread uses its
\* record, a worker list or the transport after release has freed it; no
\* record is freed twice.
C18_ReleaseSafety ==
    /\ rel.pc = "free" => Stopped(rel.cur)
    /\ uaf = {}
    /\ \A w \in 1 .. Len(workers) : workers[w].rec # "freed_twice"
    /\ mem.sock # "freed_twice"

\* C19: release terminates. Once release is called it eventually returns, with
\* every worker stopped and the subscriptions freed, whatever the workers were
\* doing.
C19_ReleaseTerminates ==
    (rel.pc # "idle")
        ~> (rel.pc = "done" /\ mem.subs = "freed" /\ \A w \in 1 .. Len(workers) : Stopped(w))

(***************************************************************************)
(* Claims on a listener whose setup fails.                                 *)
(***************************************************************************)
\* C20: bind failure. In the step in which socket, setsockopt, bind or listen
\* fails for a listener, the error callback, if one is set, is invoked once
\* with the string of the call that failed, the worker leaves the listener
\* list, the socket it had created is closed and everything else (the other
\* listener, its sockets, the dialer, the connection set, the descriptors of
\* the process) is as before.
C20_BindFailure ==
    [][ (l2_pc # "none" /\ l2_pc' = "none") =>
          /\ Len(error_log') = Len(error_log) + 1
          /\ SubSeq(error_log', 1, Len(error_log)) = error_log
          /\ LET e == error_log'[Len(error_log')] IN
                /\ e.call = "socket" <=> l2_pc = "socket"
                /\ ~cb_error => e.err = NULL
                /\ cb_error =>
                     /\ e.call = "socket" => e.err = "sock: unable to create listenner socket"
                     /\ e.call = "setsockopt" => e.err = "sock: unable to set socket option SO_REUSEADDR"
                     /\ e.call = "bind" => e.err = "sock: unable to bind socket"
                     /\ e.call = "listen" => e.err = "sock: unable to listen socket"
          /\ \A f \in FDs : fdkind'[f] = IF l2_pc = "setup" /\ f = l2_socket THEN "closed" ELSE fdkind[f]
          /\ UNCHANGED <<l_pc, l_socket, l_fds, r_pc, r_socket, r_fds, r_retry,
                         clients_fds, clients_index, clients_sem, fdpeer, readers>> ]_vars

\* two setups have failed at different calls and were reported, the socket
\* of the second was closed; the other listener runs with a connection it
\* accepted, and the dialer is connected
C20_Witness ==
    /\ Len(error_log) = 2
    /\ error_log[1].call = "socket" /\ error_log[1].err = NULL
    /\ error_log[2].call = "listen" /\ error_log[2].err = "sock: unable to listen socket"
    /\ l2_pc = "none"
    /\ l_pc = "loop" /\ \E c \in l_fds : c # l_socket /\ c \in clients_fds
    /\ r_pc = "connected" /\ r_socket \in clients_fds

\* C21: the bind callback is invoked at most once per bind call, only for a
\* listener that has bound, listens and is in its loop, and a bind call that
\* was notified to the bind callback is never notified to the error callback.
C21_BindNotifiedOnce ==
    /\ \A i, j \in 1 .. Len(bind_log) : i < j => bind_log[i] # bind_log[j]
    /\ \A i \in 1 .. Len(bind_log) :
         /\ bind_log[i].worker = "l" => l_pc = "loop" /\ fdkind[l_socket] = "listen"
         /\ bind_log[i].worker = "l2" =>
              /\ l2_pc # "none"
              /\ Len(error_log) >= bind_log[i].bind => error_log[bind_log[i].bind].err = NULL

(***************************************************************************)
(* Claims on failed writes.                                                *)
(***************************************************************************)
\* a round-robin sender whose write failed and whose failure was handled
RrFailed(w) ==
    /\ senders[w].socket = SOCK_SEND_ROUND_ROBIN
    /\ senders[w].failed
    /\ senders[w].pc \in {"rr_inc", "end", "done"}

\* C22: when the write of a round-robin send fails, the socket picked is
\* closed and out of the connection set unless a later connection took the
\* descriptor, the buffer is written to no peer, and the send of the caller
\* returned failure.
C22_RoundRobinFailureReported ==
    \A w \in 1 .. Len(senders) :
        RrFailed(w) =>
            /\ senders[w].pick \in clients_fds => fdkind[senders[w].pick] = "conn"
            /\ \A p \in DOMAIN wire : \A i \in 1 .. Len(wire[p]) : wire[p][i] # w
            /\ senders[w].ret = -1

\* the parts of C22 other than the value returned to the caller
C22_ClosedAndNotRetried ==
    \A w \in 1 .. Len(senders) :
        RrFailed(w) =>
            /\ senders[w].pick \in clients_fds => fdkind[senders[w].pick] = "conn"
            /\ \A p \in DOMAIN wire : \A i \in 1 .. Len(wire[p]) : wire[p][i] # w

\* C23: every failed write to a peer is surfaced to the user: in the step in
\* which a send() of a sender fails while an error callback is set, the error
\* callback is invoked for the failed send.
C23_WriteFailureSurfaced ==
    [][ \A w \in 1 .. Len(senders) :
          (cb_error /\ ~senders[w].failed /\ senders'[w].failed)
             => /\ Len(error_log') = Len(error_log) + 1
                /\ error_log'[Len(error_log')].call = "send" ]_vars

\* the part of C23 on the peer: the descriptor of a failed write is closed and
\* out of the connection set when the sender has ended, unless a later
\* connection took the descriptor
C23_PeerClosed ==
    \A w \in 1 .. Len(bcast_log) :
        senders[w].pc \in {"end", "done"} =>
            \A f \in bcast_log[w].failed : f \in clients_fds => fdkind[f] = "conn"

(***************************************************************************)
(* Claims on the messengers.                                               *)
(***************************************************************************)
\* C24: in the step in which the decoding of a received buffer fails, no user
\* callback is invoked and nothing is sent for it, and the socket the buffer
\* came from is closed and removed from its owner's set and from the
\* connection set.
C24_DecodeFailureClosesPeer ==
    [][ \A m \in 1 .. Len(messengers) :
          (messengers[m].pc = "run" /\ messengers'[m].pc = "dropped") =>
             /\ UNCHANGED <<dispatched, senders>>
             /\ messengers[m].from \notin clients_fds'
             /\ messengers[m].from \notin l_fds' \cup r_fds'
             /\ fdkind'[messengers[m].from] = "closed" ]_vars

\* the part of C24 on the frame: it is dropped, no callback, nothing sent
C24_FrameDropped ==
    [][ \A m \in 1 .. Len(messengers) :
          (messengers[m].pc = "run" /\ messengers'[m].pc = "dropped") =>
             UNCHANGED <<dispatched, senders, subs, wire>> ]_vars

(***************************************************************************)
(* Claims on the round-robin search.                                       *)
(***************************************************************************)
\* the distance of descriptor f from the cursor in the scan c+1, c+2, ...
ScanRank(f, cursor) == (f - cursor - 1 + FD_SETSIZE) % FD_SETSIZE

\* the first member of the set met by the scan
FirstAfter(fds, cursor) ==
    CHOOSE f \in fds : \A g \in fds : ScanRank(f, cursor) <= ScanRank(g, cursor)

\* C25: round-robin pick. In the step in which the search of a round-robin
\* sender finds a socket, the socket is the first member of the connection
\* set met when scanning from the cursor + 1 with wrap-around.
C25_RoundRobinPick ==
    [][ \A w \in 1 .. Len(senders) :
          (senders[w].pc = "rr_search" /\ senders'[w].pc = "rr_send")
             => senders'[w].pick = FirstAfter(clients_fds, clients_index) ]_vars

\* the delay that follows delay d: 1.5 times d, truncated, at most the cap
GrownDelay(d) == IF (d * 3) \div 2 > 5000 THEN 5000 ELSE (d * 3) \div 2

\* a round-robin sender re-checks an empty set and sleeps
RrSleeps(w) == senders[w].pc = "rr_search" /\ senders'[w].pc = "rr_search" /\ senders'[w] # senders[w]

\* a round-robin sender gives up
RrGivesUp(w) == senders[w].pc = "rr_search" /\ senders'[w].pc = "end"

\* what C26 says of a search but for the length of the sleeps: a peer in the
\* set is picked at once; the sender gives up at the check that follows the
\* third sleep of 5000 ms, the cursor unchanged and nothing written
RrWaitRest(w) ==
    /\ (senders[w].pc = "rr_search" /\ senders'[w] # senders[w] /\ clients_fds # {})
          => senders'[w].pc = "rr_send" /\ senders'[w].pick \in clients_fds
    /\ RrSleeps(w) => clients_fds = {} /\ senders'[w].loop <= 3
    /\ RrGivesUp(w) =>
          /\ clients_fds = {}
          /\ senders[w].loop = 3 /\ senders[w].retry = 5000
          /\ clients_index' = clients_index
          /\ wire' = wire /\ \A p \in DOMAIN wire : \A i \in 1 .. Len(wire[p]) : wire[p][i] # w

\* C26: round-robin wait for a peer. A round-robin sender that finds the
\* connection set empty sleeps 100 ms the first time and then each time 1.5
\* times the previous sleep, at most 5000 ms; it sends as soon as a check
\* finds a peer, and gives up, cursor unchanged and message discarded, once
\* the delay has hit the cap three times.
C26_RoundRobinWait ==
    [][ \A w \in 1 .. Len(senders) :
          /\ RrSleeps(w) =>
                senders'[w].retry = IF senders[w].retry = 100 /\ senders[w].loop = 0
                                    THEN 100 ELSE GrownDelay(senders[w].retry)
          /\ RrWaitRest(w) ]_vars

\* the same with the sleeps the code makes: 150 ms the first time
C26_WaitFrom150 ==
    [][ \A w \in 1 .. Len(senders) :
          /\ RrSleeps(w) => senders'[w].retry = GrownDelay(senders[w].retry)
          /\ RrWaitRest(w) ]_vars

(***************************************************************************)
(* Claims on the back-off of the dialer.                                   *)
(***************************************************************************)
\* an attempt of the dialer fails and the dialer sleeps
DialFails ==
    /\ r_pc = "connect" /\ r_pc' = "connect"
    /\ (nconnfail' # nconnfail \/ r_retry' # r_retry \/ r_socket' # r_socket)

\* C27: dialer back-off. The delay slept after a failed attempt is 100 ms when
\* the attempt is the first to fail since the start or since the last
\* successful connect, and otherwise 1.5 times the previous delay, truncated,
\* at most 5000 ms.
C27_DialerBackoff ==
    [][ /\ DialFails => r_retry' = IF r_retry = 100 THEN 100 ELSE GrownDelay(r_retry)
        /\ r_pc' = "connected" => r_retry' = 100 ]_vars

\* the same with the delays the code sleeps: 150 ms after the first failure
C27_BackoffFrom150 ==
    [][ /\ DialFails => r_retry' = GrownDelay(r_retry) /\ r_retry' <= 5000
        /\ r_pc' = "connected" => r_retry' = 100 ]_vars

(***************************************************************************)
(* Claims on the read path of the listener and of the dialer.              *)
(***************************************************************************)
\* C28: peer close on the read path. In the step in which a listener or a
\* dialer drops a peer socket from its own set (zero bytes available or a
\* failed read), the socket is closed and out of the connection set; for the
\* dialer the connected loop ends and the next connect attempt follows.
C28_PeerCloseOnRead ==
    [][ /\ \A index \in l_fds \ l_fds' :
              /\ index \notin clients_fds'
              /\ fdkind'[index] = "closed"
        /\ \A index \in r_fds \ r_fds' :
              /\ index = r_socket
              /\ index \notin clients_fds'
              /\ fdkind'[index] = "closed"
              /\ r_pc = "connected" /\ r_pc' = "connect" ]_vars

\* the listener on descriptor 1 has accepted a connection on 2 and the dialer
\* has connected on 3; both connections were closed on the read path, and
\* the dialer is back to connecting
C28_Witness ==
    /\ l_pc = "loop" /\ l_socket = 1 /\ l_fds = {1}
    /\ r_pc = "connect" /\ r_socket = 3 /\ r_fds = {}
    /\ npeer = 2 /\ nconnfail = 0 /\ l2_pc = "none" /\ error_log = <<>>
    /\ clients_fds = {}
    /\ fdkind[2] = "closed" /\ fdkind[3] = "closed"

(***************************************************************************)
(* Claims on the connection set.                                           *)
(***************************************************************************)
\* the peer sockets a listener or a dialer owns
OwnedByListener == l_fds \ {l_socket}
OwnedByDialer == r_fds

\* C29: ownership. A descriptor is in the connection set iff it is a peer
\* socket in the set of exactly one owner, the listener or the dialer.
C29_Ownership ==
    \A f \in FDs :
        f \in clients_fds <=>
            (f \in OwnedByListener /\ f \notin OwnedByDialer) \/ (f \in OwnedByDialer /\ f \notin OwnedByListener)

\* sender w calls send() in this step, and the descriptor it writes to
Writes(w) ==
    \/ senders[w].pc = "rr_send" /\ senders'[w].pc # "rr_send"
    \/ senders[w].pc = "uni_send" /\ senders'[w].pc # "uni_send"
    \/ /\ senders[w].pc = "bc_loop" /\ senders'[w].index # senders[w].index
       /\ senders[w].index \in clients_fds

WriteTarget(w) ==
    IF senders[w].pc = "rr_send" THEN senders[w].pick
    ELSE IF senders[w].pc = "uni_send" THEN senders[w].socket ELSE senders[w].index

\* C30: every write of a sender to a peer socket is made while the sender
\* holds the clients semaphore, to a descriptor that is in the connection set
\* at that moment.
C30_WriteUnderSemaphore ==
    [][ \A w \in 1 .. Len(senders) :
          Writes(w) => clients_sem = w /\ WriteTarget(w) \in clients_fds ]_vars

\* the part of C30 on the target alone
C30_WriteToMember ==
    [][ \A w \in 1 .. Len(senders) : Writes(w) => WriteTarget(w) \in clients_fds ]_vars

(***************************************************************************)
(* Claims on the completion slots of the REQ endpoint.                     *)
(***************************************************************************)
\* the name of a completion slot has been created, whether it is still linked or not
Created(name) == \E q \in 1 .. Len(queues) : queues[q].name = name

\* the sends whose sock_send has been issued
Sent(r) == requesters[r].started

\* C31: the completion slot keyed by a request's id exists before the request
\* is handed to the transport: a send that has issued sock_send holds the
\* queue named after its id, and every request or reply on its way, and every
\* reply in the receive path, carries an id whose slot has been created.
C31_SlotBeforeSend ==
    /\ \A r \in 1 .. MaxReq :
          Sent(r) => /\ requesters[r].mq # NoQueue
                     /\ queues[requesters[r].mq].name = str_mq(requesters[r].id)
    /\ \A f \in net_req \cup net_rep : Created(str_mq(Last(f.fields).data))
    /\ \A x \in 1 .. Len(rx) : Created(str_mq(rx[x].id_field.data))

\* a reply is in the receive path, about to post to the slot of a send that waits
C31_Witness ==
    \E x \in 1 .. Len(rx) :
        /\ rx[x].pc = "mqsend"
        /\ requesters[rx[x].req].pc = "recv"
        /\ rx[x].mq = requesters[rx[x].req].mq
        /\ queues[rx[x].mq].linked

\* the sends that have taken their correlation id
HasId(r) == requesters[r].pc # "idle"

\* C32: correlation-id uniqueness. Two sends on the endpoint, concurrent ones
\* included, have distinct correlation ids, and two sends in progress never
\* hold the same completion slot.
C32_IdUniqueness ==
    \A r1, r2 \in 1 .. MaxReq :
        (r1 # r2 /\ HasId(r1) /\ HasId(r2))
        => /\ requesters[r1].id # requesters[r2].id
           /\ (requesters[r1].mq # NoQueue /\ requesters[r1].pc # "done")
                 => requesters[r1].mq # requesters[r2].mq

\* the replies of the receive path that carry the id of send r
RepliesTo(r) == {x \in 1 .. Len(rx) : rx[x].id_field.data = requesters[r].id}

\* the replies that were posted to a completion slot
Accepted(X) == {x \in X : rx[x].amp_state \in {"queued", "delivered"}}

\* the worker of reply x is inside mq_send on a full queue
BlockedInSend(x) == rx[x].pc = "mqsend" /\ Len(queues[rx[x].mq].msgs) >= 1

\* C33: a pending request is consumed exactly once. Of the replies that carry
\* the id of one send at most one is posted to its slot and delivered; every
\* other one is released by the receive path, whose worker never blocks.
C33_ConsumedOnce ==
    \A x \in RepliesTo(1) :
        /\ ~BlockedInSend(x)
        /\ Accepted(RepliesTo(1) \ {x}) # {} /\ rx[x].pc = "done" => rx[x].amp_state = "released"

\* the send itself takes one reply at most out of its slot
C33_DeliveredOnce ==
    Cardinality({x \in RepliesTo(1) : rx[x].amp_state = "delivered"}) <= 1

\* a second reply that arrives after the slot was unlinked is dropped and released
C33_LateDuplicate ==
    \A x \in RepliesTo(1) :
        (rx[x].pc = "done" /\ rx[x].mq = NoQueue) => rx[x].amp_state = "released"

\* send r returns in this step
Returns(r) == requesters[r].pc # "done" /\ requesters'[r].pc = "done"

\* a queue of that name is linked after the step
LinkedAfter(name) == \E q \in 1 .. Len(queues') : queues'[q].linked /\ queues'[q].name = name

\* no other send has the id of send r
OwnId(r) == \A o \in 1 .. MaxReq : (o # r /\ HasId(o)) => requesters[o].id # requesters[r].id

\* C34: whenever a REQ send returns, by success, by timeout or by a failure to
\* encode, to create the slot or to start the sender, no completion slot named
\* after its id remains.
C34_NoSlotAfterReturn ==
    [][ \A r \in 1 .. MaxReq : Returns(r) => ~LinkedAfter(str_mq(requesters[r].id)) ]_vars

\* a send that shares its id with no other send leaves no slot on any exit path
C34_OwnSlotUnlinked ==
    [][ \A r \in 1 .. MaxReq : (Returns(r) /\ OwnId(r)) => ~LinkedAfter(str_mq(requesters[r].id)) ]_vars

\* C35: id stripping. The message the receive path keeps after it has detached
\* the trailing id field has a count equal to the number of fields reached from
\* its first field, and the id field is not among them.
C35_IdStripped ==
    \A x \in 1 .. Len(rx) :
        /\ rx[x].amp.count = Len(rx[x].amp.fields)
        /\ \A i \in 1 .. Len(rx[x].amp.fields) : rx[x].amp.fields[i] # rx[x].id_field

\* a message of two fields or more is stripped of its id field and of nothing else
C35_StrippedWhenMore ==
    \A x \in 1 .. Len(rx) :
        rx[x].amp.count >= 1
        => /\ rx[x].amp.count = Len(rx[x].amp.fields)
           /\ replied[rx[x].req] \in Replies(rx[x].req) => rx[x].amp.fields = replied[rx[x].req].fields

(***************************************************************************)
(* Claims on the receive side.                                             *)
(***************************************************************************)
\* a frame that decodes to a message with a field
WellFormed(frame) == frame.ok /\ frame.fields # <<>>

\* the number of well-formed frames at the head of a buffer
RECURSIVE GoodPrefix(_)
GoodPrefix(buffer) ==
    IF buffer = <<>> \/ ~WellFormed(Head(buffer)) THEN 0 ELSE 1 + GoodPrefix(Tail(buffer))

\* C36: frame coalescing. The frames of one read buffer are decoded and
\* dispatched one by one in buffer order: what has been dispatched is, frame
\* for frame, the head of the buffer; the callback returns only when every
\* frame up to the end of the buffer, or up to the first frame that does not
\* decode, has been dispatched, and nothing after such a frame is dispatched.
C36_FrameCoalescing ==
    /\ Len(cb_log) <= GoodPrefix(cb_data)
    /\ \A i \in 1 .. Len(cb_log) : cb_log[i] = Amp(cb_data[i].fields)
    /\ cb_pc = "returned" => Len(cb_log) = GoodPrefix(cb_data)

\* a buffer of three well-formed frames has been dispatched to its end
C36_Witness ==
    /\ cb_pc = "returned"
    /\ Len(cb_data) = MaxFrames /\ GoodPrefix(cb_data) = MaxFrames
    /\ Len(cb_log) = MaxFrames /\ cb_buffer = <<>>

\* a frame that fails to decode ends the call: the well-formed frame that
\* follows it in the buffer is not dispatched
C36_StopsAtBadFrame ==
    /\ cb_pc = "returned"
    /\ Len(cb_data) = 3 /\ WellFormed(cb_data[1]) /\ ~cb_data[2].ok /\ WellFormed(cb_data[3])
    /\ Len(cb_log) = 1

\* messenger m has handed its frames to the callbacks
Handled(m) == messengers[m].pc # "run"

\* C37: receive-side order. Of two reads from one peer socket, the callbacks
\* for the frames of the earlier read start before the callbacks for the
\* frames of the later read.
C37_ReceiveOrder ==
    \A m1, m2 \in 1 .. Len(messengers) :
        ( /\ m1 < m2
          /\ messengers[m1].from = messengers[m2].from
          /\ messengers[m1].peer = messengers[m2].peer
          /\ Handled(m2) )
        => Handled(m1)

\* each read is handed to one messenger, in read order, with the socket it came from
C37_MessengerPerRead ==
    [][ Len(messengers') > Len(messengers)
        => /\ Len(messengers') = Len(messengers) + 1
           /\ SubSeq(messengers', 1, Len(messengers)) = messengers
           /\ messengers'[Len(messengers')].pc = "run" ]_vars

\* messenger m is between the sem_wait and the sem_post of its dispatch
Dispatching(m) == dsp[m].pc \in {"first", "loop", "post"}

\* C38: dispatch sees a stable subscription table. From before its first
\* subscription is examined until after its last callback a dispatch holds the
\* subscriptions semaphore: the table is the one it first saw, no subscribe or
\* unsubscribe is inside its parse, and no other dispatch is iterating.
C38_StableTable ==
    \A m \in 1 .. MaxMessengers :
        Dispatching(m)
        => /\ sem.subs = 0
           /\ subs = dsp[m].seen
           /\ usr.pc = "idle"
           /\ \A o \in 1 .. MaxMessengers : o # m => ~Dispatching(o)

\* a dispatch is at the second of two subscriptions
C38_Witness ==
    \E m \in 1 .. MaxMessengers :
        /\ dsp[m].pc = "loop" /\ dsp[m].curr = 2
        /\ Len(subs) = MaxSubs
        /\ sem.subs = 0

\* the open descriptors the dialer created with socket()
DialerSockets == {f \in FDs : fdkind[f] \in {"unconn", "conn"}}

\* C39: a dialer holds at most one open socket descriptor at any time.
C39_OneSocket == Cardinality(DialerSockets) <= 1

\* the socket of a connection that was lost is closed before the next attempt:
\* without failed connects the dialer has one open socket at most
C39_OneSocketIfNoRefusal ==
    nconnfail = 0 => Cardinality(DialerSockets) <= 1

(***************************************************************************)
(* Claims on the worker lists.                                             *)
(***************************************************************************)
\* the workers reached from w along next, MaxWorkers + 1 of them at most
RECURSIVE Forward(_, _)
Forward(w, n) == IF w = 0 \/ n = 0 THEN <<>> ELSE <<w>> \o Forward(node[w].next, n - 1)

\* the workers reached from w along prev
RECURSIVE Backward(_, _)
Backward(w, n) == IF w = 0 \/ n = 0 THEN <<>> ELSE <<w>> \o Backward(node[w].prev, n - 1)

Reverse(q) == [i \in 1 .. Len(q) |-> q[Len(q) + 1 - i]]

\* the workers that were added to the chain and not removed from it
Inserted == {w \in 1 .. MaxWorkers : node[w].st \in {"post", "started"} /\ node[w].th \notin {"post", "gone"}}

\* C40: worker-list integrity. The list is a well-formed doubly linked chain
\* of the workers added and not removed, each once; a worker is removed only
\* after the call that started it has added it and released the semaphore;
\* a worker whose thread could not be created is not in the list.
C40_ListIntegrity ==
    LET chained == Forward(chain.first, MaxWorkers + 1) IN
    /\ Len(chained) <= MaxWorkers
    /\ \A i, j \in 1 .. Len(chained) : i # j => chained[i] # chained[j]
    /\ {chained[i] : i \in 1 .. Len(chained)} = Inserted
    /\ Backward(chain.last, MaxWorkers + 1) = Reverse(chained)
    /\ chained # <<>> => node[chained[1]].prev = 0 /\ node[chained[Len(chained)]].next = 0
    /\ \A w \in 1 .. MaxWorkers :
        /\ node[w].th \in {"unlink", "post", "gone"} => node[w].st = "started"
        /\ node[w].st = "failed" => node[w].th = "none" /\ w \notin Inserted

\* a worker that had a predecessor and a successor has removed itself, and
\* the two are still chained
C40_Witness ==
    \E w \in 1 .. MaxWorkers :
        /\ node[w].th = "gone" /\ node[w].prev # 0 /\ node[w].next # 0
        /\ Forward(chain.first, MaxWorkers + 1) = <<node[w].prev, node[w].next>>

====
